---- MODULE Spec2Model ----
(***************************************************************************)
(* Response-recovery pipeline of the CV alignment service.                 *)
(*                                                                         *)
(* Text is modelled as a sequence of tokens.  A token is one character     *)
(* (a brace, a backtick, a blank, a line break ...) or one atomic word     *)
(* whose inner characters play no role in the code: the marker             *)
(* \documentclass, the words latex and json, a JSON string literal, a      *)
(* JSON number literal.  A code fence is three backtick tokens, so that    *)
(* runs of backticks and str.replace behave as in Python.                  *)
(***************************************************************************)
EXTENDS Integers, Sequences, FiniteSets, TLC

VARIABLES
    endpoint,           \* the handler that served the request ("none" before)
    llm_reply,          \* text returned by call_openrouter_llm / call_openai_llm
    status_code,        \* HTTP status of the response (0 before a request)
    modified_cv_latex,  \* modify_cv: the recovered LaTeX body of the 200 response
    returned,           \* JSON endpoints: the value returned with the 200 response
    detail,             \* HTTPException detail of a failed request
    request,            \* the request being handled: route, upload, job text, as_pdf
    pc,                 \* position of the handler in its sequence of steps
    calls,              \* the external steps taken so far, in order, with outcomes
    cv_text,            \* text extracted from the uploaded file
    jobs_data,          \* postings returned by fetch_jobs_from_api
    previous,           \* result of an earlier successful request
    resubmitted,        \* serialization of that result, sent back as a reply
    files,              \* data/processed, data/outputs and the temporary directories
    handlers            \* the concurrent requests to /cv/modify, one per worker thread

request_vars == <<request, pc, calls, cv_text, jobs_data>>
rerun_vars == <<previous, resubmitted>>
files_vars == <<files, handlers>>
single_vars == <<endpoint, llm_reply, status_code, modified_cv_latex, returned, detail,
                 request_vars, rerun_vars>>

vars == <<endpoint, llm_reply, status_code, modified_cv_latex, returned, detail,
          request, pc, calls, cv_text, jobs_data, previous, resubmitted, files, handlers>>

(***************************************************************************)
(* Bounds of the model.                                                    *)
(***************************************************************************)
MaxLen == 6         \* longest LaTeX reply drawn from the full alphabet
MaxFenceLen == 8    \* longest LaTeX reply made of backticks and "latex" only
MaxProseLen == 2    \* longest text around the payload of a JSON reply

(***************************************************************************)
(* Tokens.                                                                 *)
(***************************************************************************)
DOCUMENTCLASS == "\\documentclass"
LATEX == "latex"
BACKTICK == "backtick"
SP == " "
LF == "\n"
CR == "\r"

Whitespace == {SP, LF, CR}
LineBreaks == {LF, CR}

FENCE == <<BACKTICK, BACKTICK, BACKTICK>>
FENCE_LATEX == <<BACKTICK, BACKTICK, BACKTICK, LATEX>>

LatexAlphabet == {DOCUMENTCLASS, LATEX, BACKTICK, SP, LF, CR}
FenceAlphabet == {BACKTICK, LATEX}

\* Tokens of the JSON replies.
JSONWORD == "json"
PROSE == "Here"
LBRACE == "{"
RBRACE == "}"
LBRACKET == "["
RBRACKET == "]"
COLON == ":"
COMMA == ","
NULL == "null"
TRUE_LIT == "true"
FALSE_LIT == "false"

FENCE_JSON == <<BACKTICK, BACKTICK, BACKTICK, JSONWORD>>

\* JSON string literals (one token each) and the characters they hold.
StringTable ==
    << [tok |-> "\"a\"", str |-> "a"],
       [tok |-> "\"fair_match\"", str |-> "fair_match"],
       [tok |-> "\"exp_level\"", str |-> "exp_level"],
       [tok |-> "\"skill\"", str |-> "skill"],
       [tok |-> "\"industry_exp\"", str |-> "industry_exp"],
       [tok |-> "\"80\"", str |-> "80"],
       [tok |-> "\"80.0\"", str |-> "80.0"],
       [tok |-> "\"abc\"", str |-> "abc"],
       [tok |-> "\"job_index\"", str |-> "job_index"],
       [tok |-> "\"alignment\"", str |-> "alignment"] >>

\* JSON number literals (one token each): an int, or a float in tenths.
NumberTable ==
    << [tok |-> "0", kind |-> "int", num |-> 0],
       [tok |-> "1", kind |-> "int", num |-> 1],
       [tok |-> "2", kind |-> "int", num |-> 2],
       [tok |-> "3", kind |-> "int", num |-> 3],
       [tok |-> "4", kind |-> "int", num |-> 4],
       [tok |-> "99", kind |-> "int", num |-> 99],
       [tok |-> "80", kind |-> "int", num |-> 80],
       [tok |-> "150", kind |-> "int", num |-> 150],
       [tok |-> "-5", kind |-> "int", num |-> -5],
       [tok |-> "80.5", kind |-> "float", num |-> 805] >>

\* The strings int() accepts (an optionally signed run of digits) and the
\* integer each denotes.
IntLiteralTable ==
    << [str |-> "80", num |-> 80] >>

StringLiterals == {StringTable[i].tok : i \in DOMAIN StringTable}
NumberLiterals == {NumberTable[i].tok : i \in DOMAIN NumberTable}
IntLiterals == {IntLiteralTable[i].str : i \in DOMAIN IntLiteralTable}

StrOf(tok) == StringTable[CHOOSE i \in DOMAIN StringTable : StringTable[i].tok = tok].str
TokOfStr(str) == StringTable[CHOOSE i \in DOMAIN StringTable : StringTable[i].str = str].tok
NumOf(tok) == NumberTable[CHOOSE i \in DOMAIN NumberTable : NumberTable[i].tok = tok]
TokOfNum(kind, num) ==
    NumberTable[CHOOSE i \in DOMAIN NumberTable :
                    NumberTable[i].kind = kind /\ NumberTable[i].num = num].tok
IntOfStr(str) ==
    IntLiteralTable[CHOOSE i \in DOMAIN IntLiteralTable : IntLiteralTable[i].str = str].num

(***************************************************************************)
(* Python string primitives on token sequences.                            *)
(***************************************************************************)
\* s[i:] (0-based i), as a slice from the (i+1)-th token.
Drop(s, i) == SubSeq(s, i + 1, Len(s))

\* str.strip(): remove leading and trailing whitespace.
RECURSIVE LStrip(_)
LStrip(s) ==
    IF s # <<>> /\ Head(s) \in Whitespace THEN LStrip(Tail(s)) ELSE s

RECURSIVE RStrip(_)
RStrip(s) ==
    IF s # <<>> /\ s[Len(s)] \in Whitespace
    THEN RStrip(SubSeq(s, 1, Len(s) - 1))
    ELSE s

Strip(s) == RStrip(LStrip(s))

\* tok in s
Contains(s, tok) == \E i \in 1..Len(s) : s[i] = tok

\* s.startswith(p)
StartsWith(s, p) == Len(s) >= Len(p) /\ SubSeq(s, 1, Len(p)) = p

\* str.replace(old, ''): delete the non-overlapping occurrences of old,
\* scanning from the left.
RECURSIVE Remove(_, _)
Remove(s, old) ==
    IF s = <<>> THEN <<>>
    ELSE IF StartsWith(s, old) THEN Remove(Drop(s, Len(old)), old)
    ELSE <<Head(s)>> \o Remove(Tail(s), old)

\* str.splitlines(): break at \n, \r and \r\n (one break); the breaks are
\* not kept and a final break opens no further line.
RECURSIVE SplitFrom(_, _)
SplitFrom(s, cur) ==
    IF s = <<>> THEN (IF cur = <<>> THEN <<>> ELSE <<cur>>)
    ELSE IF Head(s) = CR /\ Len(s) >= 2 /\ s[2] = LF
         THEN <<cur>> \o SplitFrom(Drop(s, 2), <<>>)
    ELSE IF Head(s) \in LineBreaks
         THEN <<cur>> \o SplitFrom(Tail(s), <<>>)
    ELSE SplitFrom(Tail(s), Append(cur, Head(s)))

splitlines(s) == SplitFrom(s, <<>>)

\* "\n".join(lines)
RECURSIVE JoinLF(_)
JoinLF(lines) ==
    IF lines = <<>> THEN <<>>
    ELSE IF Len(lines) = 1 THEN lines[1]
    ELSE lines[1] \o <<LF>> \o JoinLF(Tail(lines))

(***************************************************************************)
(* LaTeX recovery of modify_cv.                                            *)
(***************************************************************************)
\* line.strip().startswith("\\documentclass")
IsMarkerLineLoose(line) == \E i \in 1..Len(line) : line[i] = DOCUMENTCLASS
IsMarkerLine(line) == StartsWith(Strip(line), <<DOCUMENTCLASS>>)

\* Indices of the lines the loop would accept; the loop breaks at the least.
MarkerLines(lines) == {i \in 1..Len(lines) : IsMarkerLine(lines[i])}

FirstMarkerLine(lines) ==
    CHOOSE i \in MarkerLines(lines) : \A j \in MarkerLines(lines) : i <= j

\* Faulty variant: the lines are rejoined even when no line holds the marker.
DropBeforeMarkerRejoin(text) ==
    LET lines == splitlines(text) IN
    IF MarkerLines(lines) = {} THEN JoinLF(lines)
    ELSE JoinLF(Drop(lines, FirstMarkerLine(lines) - 1))

\* for i, line in enumerate(lines): if ...: modified_cv = "\n".join(lines[i:])
DropBeforeMarker(text) ==
    LET lines == splitlines(text) IN
    IF MarkerLines(lines) = {} THEN text
    ELSE JoinLF(Drop(lines, FirstMarkerLine(lines) - 1))

\* .replace(FENCE_LATEX, '').replace(FENCE, '').strip()
StripFencesLatexOnly(text) == Strip(Remove(text, FENCE_LATEX))
StripFences(text) == Strip(Remove(Remove(text, FENCE_LATEX), FENCE))

\* Faulty variant: the fences are removed and the text trimmed before the
\* lines ahead of the marker are dropped.
RecoverLatexFencesFirst(text) == DropBeforeMarker(StripFences(text))

RecoverLatex(text) == StripFences(DropBeforeMarker(text))

(***************************************************************************)
(* Responses.                                                              *)
(***************************************************************************)
\* A JSON value: every field has one type, whatever the kind.
\*   kind  "none" | "null" | "bool" | "int" | "float" | "str" | "list" | "object"
\*   num   the integer (int, bool) or the number in tenths (float)
\*   str   the characters of a string
\*   items the elements of a list, or the member values of an object
\*   keys  the member names of an object, in insertion order
Value(kind, num, str, items, keys) ==
    [kind |-> kind, num |-> num, str |-> str, items |-> items, keys |-> keys]

NoValue == Value("none", 0, "", <<>>, <<>>)

\* The detail of an HTTPException: a plain message (raw_response empty and
\* has_raw FALSE) or the mapping {"raw_response": ..., "error": ...}.  The
\* error text is kept as its message, the key it names and the value or
\* type it quotes.  A message formatted around another text (an f-string
\* or a concatenation) keeps that text in text, and the status code the
\* text starts with, if any, in quoted_status.
Error(msg, key, arg) == [msg |-> msg, key |-> key, arg |-> arg]

Detail(has_raw, raw, error) ==
    [has_raw |-> has_raw, raw_response |-> raw, error |-> error,
     quoted_status |-> 0, text |-> <<>>]

NoDetail == Detail(FALSE, <<>>, Error("", "", ""))

Message(msg) == Detail(FALSE, <<>>, Error(msg, "", ""))


(***************************************************************************)
(* json.loads and json.dumps on token sequences.                           *)
(***************************************************************************)
IntValue(n) == Value("int", n, "", <<>>, <<>>)
FloatValue(tenths) == Value("float", tenths, "", <<>>, <<>>)
BoolValue(b) == Value("bool", IF b THEN 1 ELSE 0, "", <<>>, <<>>)
StrValue(str) == Value("str", 0, str, <<>>, <<>>)
NullValue == Value("null", 0, "", <<>>, <<>>)
ListValue(items) == Value("list", 0, "", items, <<>>)
ObjectValue(keys, items) == Value("object", 0, "", items, keys)

\* key in parsed, parsed[key]
HasKey(obj, key) == \E i \in 1..Len(obj.keys) : obj.keys[i] = key
KeyIndex(obj, key) == CHOOSE i \in 1..Len(obj.keys) : obj.keys[i] = key
Get(obj, key) == obj.items[KeyIndex(obj, key)]

\* parsed[key] = v: a repeated name keeps its place and takes the new value.
Put(obj, key, v) ==
    IF HasKey(obj, key)
    THEN ObjectValue(obj.keys, [obj.items EXCEPT ![KeyIndex(obj, key)] = v])
    ELSE ObjectValue(Append(obj.keys, key), Append(obj.items, v))

\* Result of a parse step: the value and the position after it.
ParseFail == [ok |-> FALSE, val |-> NoValue, next |-> 0]
ParseOk(v, n) == [ok |-> TRUE, val |-> v, next |-> n]

\* json whitespace is skipped between tokens.
RECURSIVE SkipWs(_, _)
SkipWs(s, i) ==
    IF i <= Len(s) /\ s[i] \in Whitespace THEN SkipWs(s, i + 1) ELSE i

At(s, i, tok) == i <= Len(s) /\ s[i] = tok

RECURSIVE ParseValue(_, _)
RECURSIVE ParseMembers(_, _, _)
RECURSIVE ParseElements(_, _, _)

\* One value starting at position i (whitespace already skipped).
ParseValue(s, i) ==
    IF i > Len(s) THEN ParseFail
    ELSE IF s[i] \in StringLiterals THEN ParseOk(StrValue(StrOf(s[i])), i + 1)
    ELSE IF s[i] \in NumberLiterals
         THEN ParseOk(Value(NumOf(s[i]).kind, NumOf(s[i]).num, "", <<>>, <<>>), i + 1)
    ELSE IF s[i] = NULL THEN ParseOk(NullValue, i + 1)
    ELSE IF s[i] = TRUE_LIT THEN ParseOk(BoolValue(TRUE), i + 1)
    ELSE IF s[i] = FALSE_LIT THEN ParseOk(BoolValue(FALSE), i + 1)
    ELSE IF s[i] = LBRACE
         THEN LET j == SkipWs(s, i + 1) IN
              IF At(s, j, RBRACE) THEN ParseOk(ObjectValue(<<>>, <<>>), j + 1)
              ELSE ParseMembers(s, j, ObjectValue(<<>>, <<>>))
    ELSE IF s[i] = LBRACKET
         THEN LET j == SkipWs(s, i + 1) IN
              IF At(s, j, RBRACKET) THEN ParseOk(ListValue(<<>>), j + 1)
              ELSE ParseElements(s, j, <<>>)
    ELSE ParseFail

\* "name" : value, then "," and the next member or the closing brace.
ParseMembers(s, i, obj) ==
    IF i > Len(s) \/ s[i] \notin StringLiterals THEN ParseFail
    ELSE LET c == SkipWs(s, i + 1) IN
         IF ~At(s, c, COLON) THEN ParseFail
         ELSE LET r == ParseValue(s, SkipWs(s, c + 1)) IN
              IF ~r.ok THEN ParseFail
              ELSE LET e == SkipWs(s, r.next)
                       obj2 == Put(obj, StrOf(s[i]), r.val)
                   IN IF At(s, e, RBRACE) THEN ParseOk(obj2, e + 1)
                      ELSE IF At(s, e, COMMA)
                           THEN ParseMembers(s, SkipWs(s, e + 1), obj2)
                      ELSE ParseFail

\* value, then "," and the next element or the closing bracket.
ParseElements(s, i, items) ==
    LET r == ParseValue(s, i) IN
    IF ~r.ok THEN ParseFail
    ELSE LET e == SkipWs(s, r.next)
             items2 == Append(items, r.val)
         IN IF At(s, e, RBRACKET) THEN ParseOk(ListValue(items2), e + 1)
            ELSE IF At(s, e, COMMA) THEN ParseElements(s, SkipWs(s, e + 1), items2)
            ELSE ParseFail

\* json.loads(s): one value, whitespace around it, nothing else.
loads(s) ==
    LET r == ParseValue(s, SkipWs(s, 1)) IN
    IF r.ok /\ SkipWs(s, r.next) > Len(s) THEN r ELSE ParseFail

\* json.dumps(v, indent=2): members and elements one per line, indented.
RECURSIVE Blanks(_)
Blanks(n) == IF n = 0 THEN <<>> ELSE <<SP>> \o Blanks(n - 1)

RECURSIVE dumps(_, _)
RECURSIVE DumpItems(_, _, _)
dumps(v, depth) ==
    IF v.kind = "str" THEN <<TokOfStr(v.str)>>
    ELSE IF v.kind \in {"int", "float"} THEN <<TokOfNum(v.kind, v.num)>>
    ELSE IF v.kind = "bool" THEN <<IF v.num = 1 THEN TRUE_LIT ELSE FALSE_LIT>>
    ELSE IF v.kind = "null" THEN <<NULL>>
    ELSE IF v.kind = "list"
         THEN IF v.items = <<>> THEN <<LBRACKET, RBRACKET>>
              ELSE <<LBRACKET>> \o DumpItems(v, 1, depth + 1)
                   \o <<LF>> \o Blanks(2 * depth) \o <<RBRACKET>>
    ELSE IF v.items = <<>> THEN <<LBRACE, RBRACE>>
         ELSE <<LBRACE>> \o DumpItems(v, 1, depth + 1)
              \o <<LF>> \o Blanks(2 * depth) \o <<RBRACE>>

DumpItems(v, i, depth) ==
    IF i > Len(v.items) THEN <<>>
    ELSE <<LF>> \o Blanks(2 * depth)
         \o (IF v.kind = "object" THEN <<TokOfStr(v.keys[i]), COLON, SP>> ELSE <<>>)
         \o dumps(v.items[i], depth)
         \o (IF i < Len(v.items) THEN <<COMMA>> ELSE <<>>)
         \o DumpItems(v, i + 1, depth)

(***************************************************************************)
(* The request boundary of the cv_modify handlers.                         *)
(***************************************************************************)
\* What a handler raises, and what the caller receives for it.
HTTPException(code, d) == [type |-> "HTTPException", status_code |-> code, detail |-> d]

\* except HTTPException: raise / except Exception: raise HTTPException(500, ...)
AtBoundary(exc) ==
    IF exc.type = "HTTPException" THEN exc
    ELSE HTTPException(500, Message("Internal server error"))

\* No request received yet.
NoRequest ==
    [route |-> "none", filename |-> "", file_size |-> 0,
     job_text |-> [len |-> 0, blank |-> TRUE], as_pdf |-> FALSE]

\* No earlier result, nothing sent back.
NoPrevious == [endpoint |-> "none", returned |-> NoValue]
NotResubmitted == [pending |-> FALSE, text |-> <<>>]

\* Two requests to /cv/modify at a time, on either route tree.
Procs == {1, 2}
Trees == {"v1", "api_v1"}

\* os.path.splitext(filename)[0] and strftime("%Y%m%d_%H%M%S") make the name
\* of the .tex and the .pdf file of a request.
Names == {"cv", "resume"}
Stamps == {"20250101_120000", "20250101_120001"}
Paths == Trees \X Names \X Stamps

\* A file: a LaTeX source, or the PDF compiled from the source in text.
NoFile == [exists |-> FALSE, kind |-> "none", text |-> <<>>]
TexFile(text) == [exists |-> TRUE, kind |-> "tex", text |-> text]
PdfFile(text) == [exists |-> TRUE, kind |-> "pdf", text |-> text]

\* tempfile.TemporaryDirectory() of a request: cv.tex, cv.pdf, cv.log.
NoTmp == [exists |-> FALSE, tex |-> NoFile, pdf |-> NoFile, log |-> FALSE]

NoFiles ==
    [tex |-> [q \in Paths |-> NoFile],
     pdf |-> [q \in Paths |-> NoFile],
     tmp |-> [p \in Procs |-> NoTmp]]

Idle ==
    [pc |-> "idle", tree |-> "v1", name |-> "cv", as_pdf |-> FALSE,
     stamp |-> "", template |-> "unread", prompted |-> FALSE, modified_cv |-> <<>>,
     wrote |-> {}, outcome |-> "none", status_code |-> 0, msg |-> "", sent |-> NoFile]

Init ==
    /\ endpoint = "none"
    /\ llm_reply = <<>>
    /\ status_code = 0
    /\ modified_cv_latex = <<>>
    /\ returned = NoValue
    /\ detail = NoDetail
    /\ request = NoRequest
    /\ pc = "idle"
    /\ calls = <<>>
    /\ cv_text = <<>>
    /\ jobs_data = <<>>
    /\ previous = NoPrevious
    /\ resubmitted = NotResubmitted
    /\ files = NoFiles
    /\ handlers = [p \in Procs |-> Idle]

(***************************************************************************)
(* POST /cv/modify, for an accepted upload and as_pdf = false: the reply   *)
(* of the LLM is recovered into the LaTeX body of the response.            *)
(***************************************************************************)
modify_cv(reply) ==
    /\ endpoint = "none"
    /\ endpoint' = "modify_cv"
    /\ llm_reply' = reply
    /\ returned' = NoValue
    /\ IF reply = <<>>
       THEN /\ status_code' = 500
            /\ detail' = Message("Failed to get response from LLM")
            /\ modified_cv_latex' = <<>>
       ELSE /\ status_code' = 200
            /\ detail' = NoDetail
            /\ modified_cv_latex' = RecoverLatex(reply)

\* The reply is any text over the full alphabet up to MaxLen tokens, or any
\* text of backticks and "latex" up to MaxFenceLen tokens.
NextModifyCv ==
    /\ endpoint = "none"
    /\ \/ \E k \in 0..MaxLen :
             \E reply \in [1..k -> LatexAlphabet] : modify_cv(reply)
       \/ \E k \in 0..MaxFenceLen :
             \E reply \in [1..k -> FenceAlphabet] : modify_cv(reply)
    /\ UNCHANGED <<request_vars, rerun_vars, files_vars>>

SpecModifyCv == Init /\ [][NextModifyCv]_vars

(***************************************************************************)
(* Properties of the LaTeX recovery.                                       *)
(***************************************************************************)
HasFence(s) ==
    \E i \in 1..(Len(s) - 2) :
        s[i] = BACKTICK /\ s[i + 1] = BACKTICK /\ s[i + 2] = BACKTICK

\* Position of the first occurrence of tok in s.
FirstIndex(s, tok) ==
    CHOOSE i \in 1..Len(s) : s[i] = tok /\ \A j \in 1..(i - 1) : s[j] # tok

\* The marker at position i opens its line: only blanks lie between it and
\* the preceding line break (or the start of the text).
OpensLine(s, i) ==
    /\ s[i] = DOCUMENTCLASS
    /\ \E b \in 0..(i - 1) :
          /\ b = 0 \/ s[b] \in LineBreaks
          /\ \A j \in (b + 1)..(i - 1) : s[j] = SP

HasMarkerLine(s) == \E i \in 1..Len(s) : OpensLine(s, i)

FirstMarkerAtLineStart(s) ==
    CHOOSE i \in 1..Len(s) :
        OpensLine(s, i) /\ \A j \in 1..(i - 1) : ~OpensLine(s, j)

\* Line terminators written as \n: \r\n and \r become \n.
RECURSIVE UnixBreaks(_)
UnixBreaks(s) ==
    IF s = <<>> THEN <<>>
    ELSE IF Head(s) = CR /\ Len(s) >= 2 /\ s[2] = LF
         THEN <<LF>> \o UnixBreaks(Drop(s, 2))
    ELSE IF Head(s) = CR THEN <<LF>> \o UnixBreaks(Tail(s))
    ELSE <<Head(s)>> \o UnixBreaks(Tail(s))

\* The text with both fences deleted, then trimmed.
Unfenced(s) == Strip(Remove(Remove(s, FENCE_LATEX), FENCE))

Served == endpoint = "modify_cv"

\* C1 (as stated): whenever the reply contains the marker, the body begins
\* at the first occurrence of the marker and keeps nothing that preceded it.
C1_AnyPrecedingText ==
    (Served /\ Contains(llm_reply, DOCUMENTCLASS)) =>
        /\ status_code = 200
        /\ StartsWith(modified_cv_latex, <<DOCUMENTCLASS>>)
        /\ modified_cv_latex =
              Unfenced(UnixBreaks(
                  Drop(llm_reply, FirstIndex(llm_reply, DOCUMENTCLASS) - 1)))

\* C1 (amended): whenever some line of the reply, trimmed, starts with the
\* marker, the body begins with the marker of the first such line and is the
\* reply from that marker on (line terminators written as \n, fences
\* deleted, trimmed); nothing before that marker is kept.
C1_MarkerLine ==
    (Served /\ HasMarkerLine(llm_reply)) =>
        /\ status_code = 200
        /\ StartsWith(modified_cv_latex, <<DOCUMENTCLASS>>)
        /\ modified_cv_latex =
              Unfenced(UnixBreaks(
                  Drop(llm_reply, FirstMarkerAtLineStart(llm_reply) - 1)))

\* A reply with a line of prose, a fence line, then an indented marker line.
C1_Witness ==
    /\ Served
    /\ status_code = 200
    /\ HasMarkerLine(llm_reply)
    /\ FirstMarkerAtLineStart(llm_reply) > 2
    /\ Len(modified_cv_latex) < Len(llm_reply) - 2
    /\ modified_cv_latex # <<DOCUMENTCLASS>>

\* C2: the recovered body holds no three-backtick fence and neither starts
\* nor ends with whitespace.
C2_NoFenceNoEdgeBlank ==
    (Served /\ status_code = 200) =>
        /\ ~HasFence(modified_cv_latex)
        /\ modified_cv_latex # <<>> =>
              /\ Head(modified_cv_latex) \notin Whitespace
              /\ modified_cv_latex[Len(modified_cv_latex)] \notin Whitespace

\* Deleting the latex fence joins two runs of backticks into a new fence,
\* which the second replace then deletes.
C2_Witness ==
    /\ Served
    /\ status_code = 200
    /\ llm_reply = <<BACKTICK, BACKTICK, BACKTICK, BACKTICK, BACKTICK, LATEX, BACKTICK>>
    /\ HasFence(Remove(llm_reply, FENCE_LATEX))
    /\ modified_cv_latex = <<>>

\* C3: a non-empty reply without a marker line is recovered without failure
\* and the body is the reply with both fences deleted, then trimmed.
C3_NoMarkerUnchanged ==
    (Served /\ llm_reply # <<>> /\ ~HasMarkerLine(llm_reply)) =>
        /\ status_code = 200
        /\ modified_cv_latex = Unfenced(llm_reply)

\* A reply without a marker line that holds a marker inside a line, a \r
\* break and a fence.
C3_Witness ==
    /\ Served
    /\ status_code = 200
    /\ ~HasMarkerLine(llm_reply)
    /\ Contains(llm_reply, DOCUMENTCLASS)
    /\ Contains(llm_reply, CR)
    /\ Contains(modified_cv_latex, CR)

(***************************************************************************)
(* POST /cv/modify-json, for an accepted upload (Strategy A).              *)
(***************************************************************************)
\* s.find(tok), s.rfind(tok) as 1-based positions; 0 stands for -1.
Find(s, tok) ==
    IF Contains(s, tok)
    THEN CHOOSE i \in 1..Len(s) : s[i] = tok /\ \A j \in 1..(i - 1) : s[j] # tok
    ELSE 0

RFind(s, tok) ==
    IF Contains(s, tok)
    THEN CHOOSE i \in 1..Len(s) : s[i] = tok /\ \A j \in (i + 1)..Len(s) : s[j] # tok
    ELSE 0

\* Faulty variant: the slice stops before the last closing brace (s[start:end]).
clean_json_string_exclusive(s0) ==
    LET s == Strip(Remove(Remove(Strip(s0), FENCE_JSON), FENCE))
        start == Find(s, LBRACE)
        end == RFind(s, RBRACE)
    IN IF start # 0 /\ end # 0 THEN SubSeq(s, start, end - 1) ELSE s

\* Faulty variant: leaves the text alone when the last closing brace comes
\* before the first opening one.
clean_json_string_ordered(s0) ==
    LET s == Strip(Remove(Remove(Strip(s0), FENCE_JSON), FENCE))
        start == Find(s, LBRACE)
        end == RFind(s, RBRACE)
    IN IF start # 0 /\ end # 0 /\ start < end THEN SubSeq(s, start, end) ELSE s

clean_json_string(s0) ==
    LET s == Strip(Remove(Remove(Strip(s0), FENCE_JSON), FENCE))
        start == Find(s, LBRACE)
        end == RFind(s, RBRACE)
    IN IF start # 0 /\ end # 0 THEN SubSeq(s, start, end) ELSE s

FAILED_TO_PARSE == "Failed to parse JSON. See raw_response."

\* Faulty variant: the failure carries the reply as received, not the cleaned string.
ParseFailureRaw(json_str, cleaned) ==
    HTTPException(500, Detail(TRUE, json_str, Error(FAILED_TO_PARSE, "", "")))

\* pretty = cleaned; try: pretty = json.dumps(json.loads(cleaned), indent=2)
ParseFailure(json_str, cleaned) ==
    LET pretty == IF loads(cleaned).ok THEN dumps(loads(cleaned).val, 0) ELSE cleaned
    IN HTTPException(500, Detail(TRUE, pretty, Error(FAILED_TO_PARSE, "", "")))

\* Texts placed between the fences: JSON objects, other JSON values, broken JSON.
JsonContents ==
    { <<LBRACE, "\"a\"", COLON, "1", RBRACE>>,
      <<LF, LBRACE, SP, "\"a\"", SP, COLON, SP, "1", LF, RBRACE, LF>>,
      <<LBRACE, RBRACE>>,
      <<LBRACE, "\"a\"", COLON, LBRACE, "\"a\"", COLON, "1", RBRACE, RBRACE>>,
      <<LBRACE, "\"a\"", COLON, LBRACKET, "1", COMMA, NULL, RBRACKET, RBRACE>>,
      <<LBRACE, "\"a\"", COLON, "1", COMMA, "\"a\"", COLON, TRUE_LIT, RBRACE>>,
      <<LBRACKET, "1", RBRACKET>>,
      <<LBRACKET, LBRACE, "\"a\"", COLON, "1", RBRACE, RBRACKET>>,
      <<"1">>,
      <<"\"a\"">>,
      <<NULL>>,
      <<LBRACE, "\"a\"", COLON, "1", COMMA, RBRACE>>,
      <<LBRACE, "\"a\"", "1", RBRACE>>,
      <<PROSE>>,
      <<>> }

ProseAlphabet == {PROSE, SP, LBRACE, RBRACE, BACKTICK}

modify_cv_json(json_str) ==
    /\ endpoint = "none"
    /\ endpoint' = "modify_cv_json"
    /\ llm_reply' = json_str
    /\ modified_cv_latex' = <<>>
    /\ LET cleaned == clean_json_string(json_str)
           raised ==
               IF json_str = <<>>
               THEN HTTPException(500, Message("Failed to get response from LLM"))
               ELSE ParseFailure(json_str, cleaned)
       IN IF json_str # <<>> /\ loads(json_str).ok
          THEN /\ status_code' = 200
               /\ returned' = loads(json_str).val
               /\ detail' = NoDetail
          ELSE IF json_str # <<>> /\ loads(cleaned).ok
          THEN /\ status_code' = 200
               /\ returned' = loads(cleaned).val
               /\ detail' = NoDetail
          ELSE /\ status_code' = AtBoundary(raised).status_code
               /\ detail' = AtBoundary(raised).detail
               /\ returned' = NoValue

\* The reply is prose, an opening fence, a content, a closing fence and a
\* trailing text, each possibly empty.
NextModifyCvJson ==
    /\ endpoint = "none"
    /\ \E k \in 0..MaxProseLen :
          \E pre \in [1..k -> ProseAlphabet],
             open \in {<<>>, FENCE_JSON, FENCE},
             mid \in JsonContents,
             close \in {<<>>, FENCE},
             post \in {<<>>, <<PROSE>>, <<RBRACE>>} :
              modify_cv_json(pre \o open \o mid \o close \o post)
    /\ UNCHANGED <<request_vars, rerun_vars, files_vars>>

SpecModifyCvJson == Init /\ [][NextModifyCvJson]_vars

(***************************************************************************)
(* Properties of Strategy A.                                               *)
(***************************************************************************)
ServedJson == endpoint = "modify_cv_json"

\* The reply is <prose> FENCE_JSON <content> FENCE with the opening fence
\* at position i.
FencedAt(s, i) ==
    /\ i + 6 <= Len(s)
    /\ SubSeq(s, i, i + 3) = FENCE_JSON
    /\ SubSeq(s, Len(s) - 2, Len(s)) = FENCE

ProseOf(s, i) == SubSeq(s, 1, i - 1)
ContentOf(s, i) == SubSeq(s, i + 4, Len(s) - 3)

\* C4 (as stated): for a reply <prose> FENCE_JSON <content> FENCE whose
\* content parses as JSON, whatever the prose, the request succeeds and
\* returns the value parsed from the content alone.
C4_AnyProse ==
    ServedJson =>
        \A i \in 1..Len(llm_reply) :
            (FencedAt(llm_reply, i) /\ loads(ContentOf(llm_reply, i)).ok) =>
                /\ status_code = 200
                /\ returned = loads(ContentOf(llm_reply, i)).val

\* C4 (amended): the same, for a content that is a JSON object and a prose
\* that holds neither brace.
C4_ObjectAndBraceFreeProse ==
    ServedJson =>
        \A i \in 1..Len(llm_reply) :
            ( /\ FencedAt(llm_reply, i)
              /\ loads(ContentOf(llm_reply, i)).ok
              /\ loads(ContentOf(llm_reply, i)).val.kind = "object"
              /\ ~Contains(ProseOf(llm_reply, i), LBRACE)
              /\ ~Contains(ProseOf(llm_reply, i), RBRACE) ) =>
                /\ status_code = 200
                /\ returned = loads(ContentOf(llm_reply, i)).val

\* Prose ending in a backtick, then a fenced object spread over lines.
C4_Witness ==
    /\ ServedJson
    /\ status_code = 200
    /\ \E i \in 3..Len(llm_reply) :
          /\ FencedAt(llm_reply, i)
          /\ ProseOf(llm_reply, i) = <<PROSE, BACKTICK>>
          /\ Contains(ContentOf(llm_reply, i), LF)
          /\ loads(ContentOf(llm_reply, i)).ok
          /\ returned = loads(ContentOf(llm_reply, i)).val
          /\ returned.keys = <<"a">>

\* C5: every value returned as a success is a JSON object.
C5_OnlyObjects ==
    (ServedJson /\ status_code = 200) => returned.kind = "object"

\* C6: when the direct parse and the parse of the cleaned string both fail,
\* the caller receives a 500 whose detail holds the cleaned string as
\* raw_response and the failed-to-parse error.
C6_ParseFailurePayload ==
    ( /\ ServedJson
      /\ llm_reply # <<>>
      /\ ~loads(llm_reply).ok
      /\ ~loads(clean_json_string(llm_reply)).ok ) =>
        /\ status_code = 500
        /\ detail.has_raw
        /\ detail.raw_response = clean_json_string(llm_reply)
        /\ detail.error.msg = FAILED_TO_PARSE

\* A fenced reply with braces in the prose: the cleaned string differs from
\* the reply and does not parse.
C6_Witness ==
    /\ ServedJson
    /\ status_code = 500
    /\ detail.has_raw
    /\ HasFence(llm_reply)
    /\ Contains(SubSeq(llm_reply, 1, 2), LBRACE)
    /\ detail.raw_response # llm_reply
    /\ detail.raw_response # <<>>
    /\ Head(detail.raw_response) = LBRACE
    /\ detail.error.msg = FAILED_TO_PARSE

(***************************************************************************)
(* POST /match-cv-description/, for an accepted upload (Strategy B).       *)
(***************************************************************************)
REQUIRED_KEYS == <<"fair_match", "exp_level", "skill", "industry_exp">>

\* Faulty variant: the match keeps what lies between the braces, without them.
SearchBracesInner(s) ==
    LET a == Find(s, LBRACE)
        b == RFind(s, RBRACE)
    IN IF a # 0 /\ b > a
       THEN [found |-> TRUE, group |-> SubSeq(s, a + 1, b - 1)]
       ELSE [found |-> FALSE, group |-> <<>>]

\* re.search(r'\{.*\}', result, re.DOTALL): from the first opening brace to
\* the last closing brace, when the latter comes after the former.
SearchBraces(s) ==
    LET a == Find(s, LBRACE)
        b == RFind(s, RBRACE)
    IN IF a # 0 /\ b > a
       THEN [found |-> TRUE, group |-> SubSeq(s, a, b)]
       ELSE [found |-> FALSE, group |-> <<>>]

INVALID_LITERAL == "invalid literal for int() with base 10"
BAD_ARGUMENT == "int() argument must be a string, a bytes-like object or a real number"

CoerceOk(n) == [ok |-> TRUE, num |-> n, error |-> Error("", "", "")]
CoerceFail(error) == [ok |-> FALSE, num |-> 0, error |-> error]

\* int(x): an int or bool as is, a float cut towards zero, a string read as
\* an integer literal (ValueError quoting the string otherwise), anything
\* else a TypeError naming the type.
int(v) ==
    IF v.kind \in {"int", "bool"} THEN CoerceOk(v.num)
    ELSE IF v.kind = "float"
         THEN CoerceOk(IF v.num >= 0 THEN v.num \div 10 ELSE -((-v.num) \div 10))
    ELSE IF v.kind = "str"
         THEN IF v.str \in IntLiterals THEN CoerceOk(IntOfStr(v.str))
              ELSE CoerceFail(Error(INVALID_LITERAL, "", v.str))
    ELSE CoerceFail(Error(BAD_ARGUMENT, "",
                          IF v.kind = "null" THEN "NoneType"
                          ELSE IF v.kind = "list" THEN "list" ELSE "dict"))

\* Faulty variant: the values are checked but the integers are not stored.
RECURSIVE EnsureIntsNoStore(_, _)
EnsureIntsNoStore(parsed, i) ==
    IF i > Len(REQUIRED_KEYS)
    THEN [ok |-> TRUE, val |-> parsed, error |-> Error("", "", "")]
    ELSE LET key == REQUIRED_KEYS[i] IN
         IF ~HasKey(parsed, key)
         THEN [ok |-> FALSE, val |-> NoValue, error |-> Error("Missing field", key, "")]
         ELSE LET r == int(Get(parsed, key)) IN
              IF ~r.ok THEN [ok |-> FALSE, val |-> NoValue, error |-> r.error]
              ELSE EnsureIntsNoStore(parsed, i + 1)

\* for key in [...]: if key not in parsed: raise ValueError(...);
\*                   parsed[key] = int(parsed[key])
RECURSIVE EnsureInts(_, _)
EnsureInts(parsed, i) ==
    IF i > Len(REQUIRED_KEYS)
    THEN [ok |-> TRUE, val |-> parsed, error |-> Error("", "", "")]
    ELSE LET key == REQUIRED_KEYS[i] IN
         IF ~HasKey(parsed, key)
         THEN [ok |-> FALSE, val |-> NoValue, error |-> Error("Missing field", key, "")]
         ELSE LET r == int(Get(parsed, key)) IN
              IF ~r.ok THEN [ok |-> FALSE, val |-> NoValue, error |-> r.error]
              ELSE EnsureInts(Put(parsed, key, IntValue(r.num)), i + 1)

\* Faulty variant: the failure carries the matched text, not the whole reply.
ScoreFailureGroup(result, error) ==
    HTTPException(500, Detail(TRUE, SearchBraces(result).group, error))

\* HTTPException(500, {"raw_response": result, "error": str(e)})
ScoreFailure(result, error) ==
    HTTPException(500, Detail(TRUE, result, error))

\* The texts a score takes in a reply; the empty text leaves the key out.
ScoreTexts ==
    { <<"80">>, <<"150">>, <<"-5">>, <<"80.5">>,
      <<"\"80\"">>, <<"\"80.0\"">>, <<"\"abc\"">>,
      <<NULL>>, <<TRUE_LIT>>, <<LBRACKET, "80", RBRACKET>> }

Absent == <<>>

\* "key": text for the keys present from the i-th on, separated by commas.
RECURSIVE MembersText(_, _, _)
MembersText(texts, i, first) ==
    IF i > Len(REQUIRED_KEYS) THEN <<>>
    ELSE IF texts[i] = Absent THEN MembersText(texts, i + 1, first)
    ELSE (IF first THEN <<>> ELSE <<COMMA, SP>>)
         \o <<TokOfStr(REQUIRED_KEYS[i]), COLON, SP>> \o texts[i]
         \o MembersText(texts, i + 1, FALSE)

ObjectText(texts) == <<LBRACE>> \o MembersText(texts, 1, TRUE) \o <<RBRACE>>

NoiseAlphabet == {PROSE, LF, LBRACE, RBRACE}

\* The objects placed inside other text: valid scores, a key missing, none.
NoisyObjects ==
    { ObjectText(<<<<"80">>, <<"\"80\"">>, <<"150">>, <<"-5">>>>),
      ObjectText(<<<<"80">>, <<"80">>, Absent, <<"80">>>>),
      <<>> }

match_cv_description(result) ==
    /\ endpoint = "none"
    /\ endpoint' = "match_cv_description"
    /\ llm_reply' = result
    /\ modified_cv_latex' = <<>>
    /\ LET match == SearchBraces(result)
           parsed == loads(match.group)
           checked == EnsureInts(parsed.val, 1)
           raised ==
               IF result = <<>>
               THEN HTTPException(500, Message("Failed to get response from LLM"))
               ELSE IF ~match.found
               THEN HTTPException(500, Detail(TRUE, result,
                        Error("Could not parse LLM response as JSON.", "", "")))
               ELSE IF ~parsed.ok
               THEN ScoreFailure(result, Error("JSONDecodeError", "", ""))
               ELSE ScoreFailure(result, checked.error)
       IN IF result # <<>> /\ match.found /\ parsed.ok /\ checked.ok
          THEN /\ status_code' = 200
               /\ returned' = checked.val
               /\ detail' = NoDetail
          ELSE /\ status_code' = raised.status_code
               /\ detail' = raised.detail
               /\ returned' = NoValue

\* The reply is one object, each key absent or holding one of the score
\* texts, or an object with text before and after it.
NextMatchCvDescription ==
    /\ endpoint = "none"
    /\ \/ \E texts \in [1..Len(REQUIRED_KEYS) -> ScoreTexts \cup {Absent}] :
             match_cv_description(ObjectText(texts))
       \/ \E k \in 0..MaxProseLen :
             \E pre \in [1..k -> NoiseAlphabet],
                obj \in NoisyObjects,
                post \in {<<>>} \cup {<<tok>> : tok \in NoiseAlphabet} :
                 match_cv_description(pre \o obj \o post)
    /\ UNCHANGED <<request_vars, rerun_vars, files_vars>>

SpecMatchCvDescription == Init /\ [][NextMatchCvDescription]_vars

(***************************************************************************)
(* Properties of Strategy B.                                               *)
(***************************************************************************)
ServedMatch == endpoint = "match_cv_description"

Keys == {REQUIRED_KEYS[i] : i \in DOMAIN REQUIRED_KEYS}

\* The object the brace-delimited match of the reply parses to, if any.
MatchParses == SearchBraces(llm_reply).found /\ loads(SearchBraces(llm_reply).group).ok
MatchObject == loads(SearchBraces(llm_reply).group).val

\* Strings that spell a number, with the number in tenths.
NumericStrings == {"80", "80.0"}
TenthsOfString(str) == IF str \in {"80", "80.0"} THEN 800 ELSE 0

IsIntOrNumericString(v) ==
    v.kind = "int" \/ (v.kind = "str" /\ v.str \in NumericStrings)
IsIntOrIntString(v) ==
    v.kind = "int" \/ (v.kind = "str" /\ v.str \in IntLiterals)
TenthsOf(v) == IF v.kind = "int" THEN 10 * v.num ELSE TenthsOfString(v.str)

\* What int() accepts.
Coercible(v) ==
    v.kind \in {"int", "bool", "float"} \/ (v.kind = "str" /\ v.str \in IntLiterals)

\* Position of the first required key the object lacks (0: none).
FirstMissing(obj) ==
    IF \A i \in DOMAIN REQUIRED_KEYS : HasKey(obj, REQUIRED_KEYS[i]) THEN 0
    ELSE CHOOSE i \in DOMAIN REQUIRED_KEYS :
            /\ ~HasKey(obj, REQUIRED_KEYS[i])
            /\ \A j \in 1..(i - 1) : HasKey(obj, REQUIRED_KEYS[j])

\* C7 (as stated): when the match parses to an object whose four keys hold
\* integers or numeric strings, the request succeeds and each returned
\* value is the integer equal to the number given.
C7_NumericStrings ==
    ( /\ ServedMatch
      /\ MatchParses
      /\ \A k \in Keys : HasKey(MatchObject, k) /\ IsIntOrNumericString(Get(MatchObject, k)) ) =>
        /\ status_code = 200
        /\ \A k \in Keys :
              /\ Get(returned, k).kind = "int"
              /\ 10 * Get(returned, k).num = TenthsOf(Get(MatchObject, k))

\* C7 (amended): the same, for integers and strings holding an integer
\* literal.
C7_IntegerLiterals ==
    ( /\ ServedMatch
      /\ MatchParses
      /\ \A k \in Keys : HasKey(MatchObject, k) /\ IsIntOrIntString(Get(MatchObject, k)) ) =>
        /\ status_code = 200
        /\ \A k \in Keys :
              /\ Get(returned, k).kind = "int"
              /\ 10 * Get(returned, k).num = TenthsOf(Get(MatchObject, k))

\* Integers and integer strings mixed, inside prose.
C7_Witness ==
    /\ ServedMatch
    /\ status_code = 200
    /\ Head(llm_reply) = PROSE
    /\ MatchParses
    /\ Get(MatchObject, "exp_level") = StrValue("80")
    /\ Get(returned, "exp_level") = IntValue(80)
    /\ Get(returned, "skill") = IntValue(150)

\* C8 (as stated): when the parsed object lacks a required key, the request
\* fails with 500 and the payload holds the whole reply and the name of the
\* first missing key.
C8_NamesFirstMissing ==
    (ServedMatch /\ MatchParses /\ FirstMissing(MatchObject) # 0) =>
        /\ status_code = 500
        /\ detail.has_raw
        /\ detail.raw_response = llm_reply
        /\ detail.error.key = REQUIRED_KEYS[FirstMissing(MatchObject)]

\* C8 (amended): the request fails with 500 and the payload holds the whole
\* reply; it names the first missing key when every required key checked
\* before it holds a value int() accepts.
C8_NamesFirstMissingAfterValid ==
    (ServedMatch /\ MatchParses /\ FirstMissing(MatchObject) # 0) =>
        /\ status_code = 500
        /\ detail.has_raw
        /\ detail.raw_response = llm_reply
        /\ (\A j \in 1..(FirstMissing(MatchObject) - 1) :
                Coercible(Get(MatchObject, REQUIRED_KEYS[j]))) =>
              /\ detail.error.msg = "Missing field"
              /\ detail.error.key = REQUIRED_KEYS[FirstMissing(MatchObject)]

\* Two keys missing after a valid first one, inside prose.
C8_Witness ==
    /\ ServedMatch
    /\ status_code = 500
    /\ MatchParses
    /\ HasKey(MatchObject, "fair_match")
    /\ ~HasKey(MatchObject, "exp_level")
    /\ ~HasKey(MatchObject, "industry_exp")
    /\ detail.error.key = "exp_level"
    /\ detail.raw_response = llm_reply

\* Position of the first required key that is present with a value int()
\* rejects, the keys checked before it being present and accepted (0: none).
FirstRejected(obj) ==
    LET Rejected(i) ==
            /\ HasKey(obj, REQUIRED_KEYS[i])
            /\ ~Coercible(Get(obj, REQUIRED_KEYS[i]))
            /\ \A j \in 1..(i - 1) :
                  /\ HasKey(obj, REQUIRED_KEYS[j])
                  /\ Coercible(Get(obj, REQUIRED_KEYS[j]))
    IN IF \E i \in DOMAIN REQUIRED_KEYS : Rejected(i)
       THEN CHOOSE i \in DOMAIN REQUIRED_KEYS : Rejected(i)
       ELSE 0

\* C9: when a required key is present with a value int() rejects (and the
\* check reaches it), the request fails and the payload holds the reply and
\* the name of that key.
C9_NamesInvalidKey ==
    (ServedMatch /\ MatchParses /\ FirstRejected(MatchObject) # 0) =>
        /\ status_code = 500
        /\ detail.has_raw
        /\ detail.raw_response = llm_reply
        /\ detail.error.key = REQUIRED_KEYS[FirstRejected(MatchObject)]

\* C10: every successful result holds four integers between 0 and 100.
C10_ScoresInRange ==
    (ServedMatch /\ status_code = 200) =>
        \A k \in Keys :
            /\ Get(returned, k).kind = "int"
            /\ Get(returned, k).num \in 0..100

(***************************************************************************)
(* A successful result serialized and recovered again by the same         *)
(* strategy.                                                               *)
(***************************************************************************)
\* The body of the JSON response for a returned value:
\* json.dumps(content, separators=(",", ":")).
RECURSIVE ResponseBody(_)
RECURSIVE BodyItems(_, _)
ResponseBody(v) ==
    IF v.kind = "str" THEN <<TokOfStr(v.str)>>
    ELSE IF v.kind \in {"int", "float"} THEN <<TokOfNum(v.kind, v.num)>>
    ELSE IF v.kind = "bool" THEN <<IF v.num = 1 THEN TRUE_LIT ELSE FALSE_LIT>>
    ELSE IF v.kind = "null" THEN <<NULL>>
    ELSE IF v.kind = "list" THEN <<LBRACKET>> \o BodyItems(v, 1) \o <<RBRACKET>>
    ELSE <<LBRACE>> \o BodyItems(v, 1) \o <<RBRACE>>

BodyItems(v, i) ==
    IF i > Len(v.items) THEN <<>>
    ELSE (IF v.kind = "object" THEN <<TokOfStr(v.keys[i]), COLON>> ELSE <<>>)
         \o ResponseBody(v.items[i])
         \o (IF i < Len(v.items) THEN <<COMMA>> ELSE <<>>)
         \o BodyItems(v, i + 1)

\* The value of a 200 response is serialized, as the response body or with
\* json.dumps(indent=2), and a new request receives that text as its reply.
Reserialize ==
    /\ endpoint \in {"modify_cv_json", "match_cv_description"}
    /\ status_code = 200
    /\ previous = NoPrevious
    /\ \E text \in {ResponseBody(returned), dumps(returned, 0)} :
          resubmitted' = [pending |-> TRUE, text |-> text]
    /\ previous' = [endpoint |-> endpoint, returned |-> returned]
    /\ endpoint' = "none"
    /\ llm_reply' = <<>>
    /\ status_code' = 0
    /\ modified_cv_latex' = <<>>
    /\ returned' = NoValue
    /\ detail' = NoDetail
    /\ UNCHANGED <<request_vars, files_vars>>

\* The handler that produced the result recovers the serialized text.
RecoverAgain ==
    /\ resubmitted.pending
    /\ \/ /\ previous.endpoint = "modify_cv_json"
          /\ modify_cv_json(resubmitted.text)
       \/ /\ previous.endpoint = "match_cv_description"
          /\ match_cv_description(resubmitted.text)
    /\ resubmitted' = [resubmitted EXCEPT !.pending = FALSE]
    /\ UNCHANGED <<request_vars, previous, files_vars>>

NextRecoverTwice ==
    \/ /\ previous = NoPrevious
       /\ ~resubmitted.pending
       /\ (NextModifyCvJson \/ NextMatchCvDescription)
    \/ Reserialize
    \/ RecoverAgain

SpecRecoverTwice == Init /\ [][NextRecoverTwice]_vars

Recovered == previous # NoPrevious /\ endpoint = previous.endpoint

\* C11: when a strategy succeeded with value v, the same strategy run on
\* the JSON serialization of v succeeds and returns a value identical to v.
C11_Idempotent ==
    Recovered =>
        /\ status_code = 200
        /\ returned = previous.returned

\* Scores coerced by the first run (a string, a float, a boolean), written
\* out over several lines and recovered to the same integers.
C11_Witness ==
    /\ Recovered
    /\ endpoint = "match_cv_description"
    /\ status_code = 200
    /\ Contains(llm_reply, LF)
    /\ returned = previous.returned
    /\ Get(returned, "fair_match") = IntValue(1)
    /\ Get(returned, "exp_level") = IntValue(80)
    /\ Get(returned, "skill") = IntValue(150)

(***************************************************************************)
(* The whole request, step by step, on both route trees.                   *)
(***************************************************************************)
UploadRoutes ==
    {"v1.modify_cv", "v1.modify_cv_json", "v1.match_jobs",
     "v1.match_cv_description", "api_v1.modify_cv", "api_v1.match_jobs"}
SearchRoutes == {"v1.test_jsearch", "api_v1.test_jsearch"}
Routes == UploadRoutes \cup SearchRoutes

\* The function that serves a route.
Handler(route) ==
    IF route \in {"v1.modify_cv", "api_v1.modify_cv"} THEN "modify_cv"
    ELSE IF route = "v1.modify_cv_json" THEN "modify_cv_json"
    ELSE IF route \in {"v1.match_jobs", "api_v1.match_jobs"} THEN "match_jobs"
    ELSE IF route = "v1.match_cv_description" THEN "match_cv_description"
    ELSE "test_jsearch"

\* Uploaded file names with their extension as written; the empty name
\* stands for a file sent without a name.
FilenameTable ==
    << [name |-> "", ext |-> ""],
       [name |-> "cv.pdf", ext |-> ".pdf"],
       [name |-> "CV.PDF", ext |-> ".PDF"],
       [name |-> "cv.docx", ext |-> ".docx"],
       [name |-> "cv.txt", ext |-> ".txt"] >>
Filenames == {FilenameTable[i].name : i \in DOMAIN FilenameTable}
Ext(name) == FilenameTable[CHOOSE i \in DOMAIN FilenameTable : FilenameTable[i].name = name].ext

\* str.lower() on an extension.
lower(ext) == IF ext = ".PDF" THEN ".pdf" ELSE ext

max_size_mb == 10
max_size_bytes == max_size_mb * 1024 * 1024

\* Sizes of the uploaded file in bytes: none, some, the limit, past the limit.
FileSizes == {0, 1024, max_size_bytes, max_size_bytes + 1}

\* A job text by its length in characters and whether strip() empties it.
JobText(len, blank) == [len |-> len, blank |-> blank]
NoJobText == JobText(0, TRUE)
FormTexts == {JobText(3, TRUE), JobText(30, FALSE)}
QueryTexts == {JobText(4, FALSE), JobText(12, TRUE), JobText(30, FALSE)}
min_length == 10

\* The requests a route receives.
Requests(route) ==
    IF route \in SearchRoutes
    THEN {[route |-> route, filename |-> "", file_size |-> 0,
           job_text |-> NoJobText, as_pdf |-> FALSE]}
    ELSE [route : {route}, filename : Filenames, file_size : FileSizes,
          job_text : IF route \in {"v1.match_jobs", "api_v1.match_jobs"} THEN {NoJobText}
                     ELSE IF route = "v1.match_cv_description" THEN QueryTexts
                     ELSE FormTexts,
          as_pdf : IF Handler(route) = "modify_cv" THEN BOOLEAN ELSE {FALSE}]

(***************************************************************************)
(* Exceptions and the boundaries they cross.                               *)
(***************************************************************************)
\* A message built around another text: msg followed by the text, which
\* starts with quoted_status when that is not 0.
Formatted(msg, quoted_status, text) ==
    [Message(msg) EXCEPT !.quoted_status = quoted_status, !.text = text]

NoException == [type |-> "none", status_code |-> 0, detail |-> NoDetail]

\* An exception other than HTTPException, with the text str() gives for it.
Raised(type, msg) == [type |-> type, status_code |-> 0, detail |-> Message(msg)]
RaisedWith(type, msg, text) ==
    [type |-> type, status_code |-> 0, detail |-> Formatted(msg, 0, text)]

\* return JSONResponse({"error": msg}, status_code=code)
JSONResponse(code, msg) ==
    [type |-> "JSONResponse", status_code |-> code, detail |-> Message(msg)]

\* str(e): "<status_code>: <detail>" for an HTTPException, the message of
\* any other exception (with the status code it quotes, if any).
str(exc) ==
    [quoted_status |-> IF exc.type = "HTTPException" THEN exc.status_code
                       ELSE exc.detail.quoted_status,
     text |-> (IF exc.detail.error.msg = "" THEN <<>> ELSE <<exc.detail.error.msg>>)
              \o exc.detail.text]

\* An exception no handler code catches: the framework answers an
\* HTTPException with its own status and detail, anything else with 500.
Unhandled(exc) ==
    IF exc.type \in {"HTTPException", "JSONResponse"} THEN exc
    ELSE HTTPException(500, Message("Internal Server Error"))

\* match_jobs: except Exception as e:
\*     raise HTTPException(status_code=500, detail=f"Error: {str(e)}")
JobsBoundary(exc) ==
    HTTPException(500, Formatted("Error: ", str(exc).quoted_status, str(exc).text))

\* test_jsearch: except Exception as e:
\*     raise HTTPException(status_code=500, detail=str(e))
SearchBoundary(exc) ==
    HTTPException(500, Formatted("", str(exc).quoted_status, str(exc).text))

(***************************************************************************)
(* Input validation.                                                       *)
(***************************************************************************)
\* The first of two steps that raises.
First(e1, e2) == IF e1.type # "none" THEN e1 ELSE e2

\* Nothing raised passes a boundary unchanged.
Through(boundary_of_exc, exc) == IF exc.type = "none" THEN exc ELSE boundary_of_exc

\* FileValidation.validate_file_type
validate_file_type(filename) ==
    IF filename = "" THEN Raised("ValueError", "Filename is required")
    ELSE IF lower(Ext(filename)) \in {".pdf", ".docx"} THEN NoException
    ELSE Raised("ValueError", "Unsupported file type. Please upload a PDF or DOCX CV.")

\* FileValidation.validate_file_size
validate_file_size(file_size) ==
    IF file_size > max_size_bytes
    THEN Raised("ValueError", "File size exceeds maximum allowed size of 10MB")
    ELSE NoException

\* cv_modify.validate_cv_file
validate_cv_file(req) ==
    IF req.filename = "" THEN HTTPException(400, Message("Filename is required"))
    ELSE First(validate_file_type(req.filename), validate_file_size(req.file_size))

\* CVModifyRequest, CVModifyJSONRequest: min_length=1 and the validator that
\* rejects a text strip() empties.
validate_job_post_text(job_text) ==
    IF job_text.len < 1 \/ job_text.blank
    THEN Raised("ValidationError", "Job post text cannot be empty")
    ELSE NoException

\* What the validation part of a handler answers with, NoException when the
\* request is accepted.
Validation(req) ==
    IF req.route \in {"v1.modify_cv", "v1.modify_cv_json"}
    THEN LET exc == First(validate_job_post_text(req.job_text), validate_cv_file(req))
         IN Through(AtBoundary(exc), exc)
    ELSE IF req.route = "v1.match_jobs"
    THEN IF req.filename = "" \/ Ext(req.filename) \notin {".pdf", ".docx"}
         THEN HTTPException(400, Message("Only PDF or DOCX files are supported."))
         ELSE LET exc == First(validate_file_type(req.filename),
                               validate_file_size(req.file_size))
              IN Through(Unhandled(exc), exc)
    ELSE IF req.route = "v1.match_cv_description"
    THEN IF req.job_text.len < min_length
         THEN HTTPException(422, Message("String should have at least 10 characters"))
         ELSE IF req.filename = ""
         THEN HTTPException(400, Message("Filename is required"))
         ELSE LET exc == First(validate_file_type(req.filename),
                               validate_file_size(req.file_size))
              IN Through(Unhandled(exc), exc)
    ELSE IF req.route = "api_v1.modify_cv"
    THEN IF req.job_text.blank THEN JSONResponse(400, "Job post text is required.")
         ELSE IF lower(Ext(req.filename)) \notin {".pdf", ".docx"}
         THEN JSONResponse(400, "Unsupported file type. Please upload a PDF or DOCX CV.")
         ELSE NoException
    ELSE IF req.route = "api_v1.match_jobs"
    THEN IF req.filename = "" \/ Ext(req.filename) # ".pdf"
         THEN HTTPException(400, Message("Only PDF files are supported."))
         ELSE NoException
    ELSE NoException

(***************************************************************************)
(* Steps of a request.                                                     *)
(***************************************************************************)
\* One external step taken: what was called and how it ended.
Call(step, outcome, status, text) ==
    [step |-> step, outcome |-> outcome, status |-> status, text |-> text]

Failure(exc) ==
    [status_code |-> exc.status_code, detail |-> exc.detail,
     returned |-> NoValue, latex |-> <<>>]
Success(value, latex) ==
    [status_code |-> 200, detail |-> NoDetail, returned |-> value, latex |-> latex]

\* The handler answers the request.
Respond(route, r) ==
    /\ endpoint' = Handler(route)
    /\ status_code' = r.status_code
    /\ detail' = r.detail
    /\ returned' = r.returned
    /\ modified_cv_latex' = r.latex
    /\ pc' = "done"

\* The handler goes on to its next step.
Continue(next) ==
    /\ pc' = next
    /\ UNCHANGED <<endpoint, status_code, detail, returned, modified_cv_latex>>

\* A request arrives and the handler validates its input.
validate(req) ==
    /\ pc = "idle"
    /\ endpoint = "none"
    /\ request' = req
    /\ LET exc == Validation(req) IN
       IF exc.type # "none" THEN Respond(req.route, Failure(exc))
       ELSE Continue(IF req.route \in SearchRoutes THEN "fetch" ELSE "extract")
    /\ UNCHANGED <<llm_reply, calls, cv_text, jobs_data, rerun_vars, files_vars>>

\* What the PDF or DOCX reader does with the bytes: it raises (always on a
\* file of no bytes), or it finds the text of the pages.
Parses(req) ==
    {[raises |-> TRUE, text |-> <<>>]}
    \cup (IF req.file_size = 0 THEN {}
          ELSE {[raises |-> FALSE, text |-> t] : t \in {<<>>, <<SP>>, <<PROSE>>}})

\* cv_parser.extract_text_from_pdf, extract_text_from_docx: the text
\* stripped, None (the empty text here) on any exception.
extract_text(parse) == IF parse.raises THEN <<>> ELSE Strip(parse.text)

\* api_v1 jobs.extract_text_from_pdf: page texts, each followed by \n; an
\* exception of the reader is not caught.
extract_text_from_pdf(parse) ==
    IF parse.raises THEN [exc |-> Raised("PdfReadError", "Cannot read an empty file"), text |-> <<>>]
    ELSE [exc |-> NoException,
          text |-> IF parse.text = <<>> THEN <<>> ELSE parse.text \o <<LF>>]

\* The extraction part of a handler: the exception it answers with, or the text.
Extraction(route, parse) ==
    IF route = "api_v1.match_jobs"
    THEN LET r == extract_text_from_pdf(parse) IN
         IF r.exc.type # "none" THEN [exc |-> Unhandled(r.exc), text |-> <<>>]
         ELSE IF Strip(r.text) = <<>>
         THEN [exc |-> HTTPException(400, Message("Could not extract text from PDF.")),
               text |-> <<>>]
         ELSE r
    ELSE LET text == extract_text(parse) IN
         IF text # <<>> /\ (route # "v1.match_jobs" \/ Strip(text) # <<>>)
         THEN [exc |-> NoException, text |-> text]
         ELSE [exc |-> IF route = "v1.match_jobs"
                       THEN HTTPException(400, Message("Could not extract text from CV."))
                       ELSE IF route = "api_v1.modify_cv"
                       THEN JSONResponse(400, "Failed to extract text from CV file.")
                       ELSE HTTPException(400, Message("Failed to extract text from CV file")),
               text |-> <<>>]

\* The text of the uploaded file is extracted.
extract(parse) ==
    /\ pc = "extract"
    /\ calls' = Append(calls, Call("extract", IF parse.raises THEN "raised" ELSE "ok",
                                   0, parse.text))
    /\ LET r == Extraction(request.route, parse) IN
       IF r.exc.type # "none"
       THEN Respond(request.route, Failure(r.exc)) /\ cv_text' = <<>>
       ELSE /\ cv_text' = r.text
            /\ Continue(IF Handler(request.route) = "modify_cv" THEN "template"
                        ELSE IF Handler(request.route) = "match_jobs" THEN "fetch"
                        ELSE "llm")
    /\ UNCHANGED <<llm_reply, request, jobs_data, rerun_vars, files_vars>>

\* modify_cv reads the LaTeX template.
read_template(found) ==
    /\ pc = "template"
    /\ calls' = Append(calls, Call("template", IF found THEN "ok" ELSE "raised", 0, <<>>))
    /\ IF found THEN Continue("llm")
       ELSE Respond(request.route,
                Failure(IF request.route = "v1.modify_cv"
                        THEN HTTPException(500, Message("Failed to read LaTeX template"))
                        ELSE JSONResponse(500, "Failed to read LaTeX template")))
    /\ UNCHANGED <<llm_reply, request, cv_text, jobs_data, rerun_vars, files_vars>>

(***************************************************************************)
(* The job search.                                                         *)
(***************************************************************************)
MaxJobs == 2        \* most postings in a job-search response

\* Postings of a job-search response: with every field, without the
\* optional ones, without a title.
FULL_POSTING ==
    ObjectValue(<<"job_title", "employer_name", "job_apply_link", "job_description">>,
                <<StrValue("Engineer"), StrValue("Acme"),
                  StrValue("https://acme.example/apply"), StrValue("Builds things")>>)
BARE_POSTING ==
    ObjectValue(<<"job_title", "employer_name">>, <<StrValue("Analyst"), StrValue("Initech")>>)
UNTITLED_POSTING == ObjectValue(<<"employer_name">>, <<StrValue("Globex")>>)
Postings == {FULL_POSTING, BARE_POSTING, UNTITLED_POSTING}

UPSTREAM_BODY == "You have exceeded the quota"
UpstreamStatuses == {429, 503}

\* What the job-search API answers: a status other than 200 with a body, no
\* answer at all, or 200 with the postings under "data".
SearchFailures ==
    {[outcome |-> "status", status |-> c, text |-> <<UPSTREAM_BODY>>, data |-> <<>>] :
        c \in UpstreamStatuses}
    \cup {[outcome |-> "raised", status |-> 0,
            text |-> <<"All connection attempts failed">>, data |-> <<>>]}
Found(data) == [outcome |-> "ok", status |-> 200, text |-> <<>>, data |-> data]

\* fetch_jobs_from_api: HTTPException(resp.status_code, resp.text) unless
\* the status is 200; an exception of the client propagates.
fetch_jobs_from_api(resp) ==
    IF resp.outcome = "raised"
    THEN [exc |-> RaisedWith("ConnectError", "", resp.text), data |-> <<>>]
    ELSE IF resp.status # 200
    THEN [exc |-> HTTPException(resp.status, Formatted("", 0, resp.text)), data |-> <<>>]
    ELSE [exc |-> NoException, data |-> resp.data]

\* A fetch that asks the job search a second time after a failure.
fetch_jobs_retry(resp) ==
    /\ pc = "fetch"
    /\ calls' = Append(calls, Call("jsearch", resp.outcome, resp.status, resp.text))
    /\ LET r == fetch_jobs_from_api(resp) IN
       IF r.exc.type # "none" /\ \A i \in 1..Len(calls) : calls[i].step # "jsearch"
       THEN jobs_data' = <<>> /\ Continue("fetch")
       ELSE IF request.route \in SearchRoutes
       THEN /\ jobs_data' = r.data
            /\ IF r.exc.type # "none"
               THEN Respond(request.route, Failure(SearchBoundary(r.exc)))
               ELSE Respond(request.route,
                        Success(ObjectValue(<<"data", "query", "location">>,
                                    <<ListValue(r.data), StrValue("developer"),
                                      StrValue("chicago")>>), <<>>))
       ELSE IF r.exc.type # "none"
       THEN Respond(request.route, Failure(JobsBoundary(r.exc))) /\ jobs_data' = <<>>
       ELSE IF r.data = <<>>
       THEN /\ Respond(request.route,
                   Failure(JobsBoundary(HTTPException(404, Message("No jobs found from API.")))))
            /\ jobs_data' = <<>>
       ELSE jobs_data' = r.data /\ Continue("llm")
    /\ UNCHANGED <<llm_reply, request, cv_text, rerun_vars, files_vars>>

\* test_jsearch and match_jobs fetch the postings.
fetch_jobs(resp) ==
    /\ pc = "fetch"
    /\ calls' = Append(calls, Call("jsearch", resp.outcome, resp.status, resp.text))
    /\ LET r == fetch_jobs_from_api(resp) IN
       IF request.route \in SearchRoutes
       THEN /\ jobs_data' = r.data
            /\ IF r.exc.type # "none"
               THEN Respond(request.route, Failure(SearchBoundary(r.exc)))
               ELSE Respond(request.route,
                        Success(ObjectValue(<<"data", "query", "location">>,
                                    <<ListValue(r.data), StrValue("developer"),
                                      StrValue("chicago")>>), <<>>))
       ELSE IF r.exc.type # "none"
       THEN Respond(request.route, Failure(JobsBoundary(r.exc))) /\ jobs_data' = <<>>
       ELSE IF r.data = <<>>
       THEN /\ Respond(request.route,
                   Failure(JobsBoundary(HTTPException(404, Message("No jobs found from API.")))))
            /\ jobs_data' = <<>>
       ELSE jobs_data' = r.data /\ Continue("llm")
    /\ UNCHANGED <<llm_reply, request, cv_text, rerun_vars, files_vars>>

(***************************************************************************)
(* The LLM call and the recovery of its reply.                             *)
(***************************************************************************)
LLM_BODY == "The model is overloaded"

\* How a chat-completions call fails: a status other than 2xx with a body,
\* a network or timeout error, a body without choices[0].message.content.
LLMFailures ==
    {[outcome |-> "status", status |-> 429, text |-> <<LLM_BODY>>],
     [outcome |-> "raised", status |-> 0, text |-> <<"Read timed out">>],
     [outcome |-> "no_content", status |-> 200, text |-> <<LBRACE, RBRACE>>]}
Replied(text) == [outcome |-> "ok", status |-> 200, text |-> text]

\* call_openai_llm: the content of the reply, None (the empty text here)
\* on any exception.
call_openai_llm(result) == IF result.outcome = "ok" THEN result.text ELSE <<>>

\* call_openrouter_llm: its callers test the result for falsity, as those
\* of call_openai_llm do.
call_openrouter_llm(result) == call_openai_llm(result)

\* Replies of the model to the three single-document prompts.
LatexReplies ==
    { <<>>, <<DOCUMENTCLASS>>, <<PROSE>>,
      <<PROSE, LF>> \o FENCE_LATEX \o <<LF, DOCUMENTCLASS, LF>> \o FENCE }
JsonReplies ==
    { <<>>, <<PROSE>>, <<LBRACE, "\"a\"", COLON, "1", RBRACE>>,
      <<PROSE, SP>> \o FENCE_JSON \o <<LBRACE, "\"a\"", COLON, "1", RBRACE>> \o FENCE,
      <<LBRACE, "\"a\"", "1", RBRACE>> }
ScoreReplies ==
    { <<>>, <<PROSE>>, <<LBRACE, PROSE, RBRACE>>,
      ObjectText(<<<<"80">>, <<"\"80\"">>, <<"80">>, <<"80">>>>),
      <<PROSE, LF>> \o ObjectText(<<<<"80">>, <<"80">>, Absent, <<"80">>>>) }

\* modify_cv asks the model and keeps its reply for rendering.
llm_modify_cv(result) ==
    /\ pc = "llm"
    /\ Handler(request.route) = "modify_cv"
    /\ calls' = Append(calls, Call("llm", result.outcome, result.status, result.text))
    /\ LET modified_cv == call_openrouter_llm(result) IN
       /\ llm_reply' = modified_cv
       /\ IF modified_cv = <<>>
          THEN Respond(request.route,
                   Failure(IF request.route = "v1.modify_cv"
                           THEN HTTPException(500, Message("Failed to get response from LLM"))
                           ELSE JSONResponse(500, "Failed to get response from LLM.")))
          ELSE Continue("render")
    /\ UNCHANGED <<request, cv_text, jobs_data, rerun_vars, files_vars>>

\* modify_cv_json asks the model and recovers the object.
llm_modify_cv_json(result) ==
    /\ pc = "llm"
    /\ request.route = "v1.modify_cv_json"
    /\ calls' = Append(calls, Call("llm", result.outcome, result.status, result.text))
    /\ modify_cv_json(call_openrouter_llm(result))
    /\ pc' = "done"
    /\ UNCHANGED <<request, cv_text, jobs_data, rerun_vars, files_vars>>

\* match_cv_description asks the model and recovers the scores.
llm_match_cv_description(result) ==
    /\ pc = "llm"
    /\ request.route = "v1.match_cv_description"
    /\ calls' = Append(calls, Call("llm", result.outcome, result.status, result.text))
    /\ match_cv_description(call_openai_llm(result))
    /\ pc' = "done"
    /\ UNCHANGED <<request, cv_text, jobs_data, rerun_vars, files_vars>>

(***************************************************************************)
(* Rendering of the recovered LaTeX.                                       *)
(***************************************************************************)
\* pdflatex writes the PDF, exits non-zero, exits zero without a PDF, or
\* cannot be started.
RenderOutcomes == {"pdf", "exit_nonzero", "no_pdf", "not_started"}

\* A binary PDF response.
FileResponse == Value("file", 0, "application/pdf", <<>>, <<>>)

\* What the rendering part of modify_cv raises: only CalledProcessError is
\* caught around subprocess.run, and only as_pdf turns it into an error.
Rendering(route, as_pdf, outcome) ==
    IF outcome = "not_started"
    THEN IF route = "v1.modify_cv" THEN AtBoundary(Raised("FileNotFoundError", "pdflatex"))
         ELSE Unhandled(Raised("FileNotFoundError", "pdflatex"))
    ELSE IF outcome = "exit_nonzero" /\ as_pdf
    THEN IF route = "v1.modify_cv"
         THEN HTTPException(500, Message("LaTeX to PDF conversion failed"))
         ELSE JSONResponse(500, "LaTeX to PDF conversion failed")
    ELSE IF outcome = "no_pdf" /\ as_pdf
    THEN IF route = "v1.modify_cv" THEN HTTPException(500, Message("PDF was not generated"))
         ELSE JSONResponse(500, "PDF was not generated.")
    ELSE NoException

\* modify_cv recovers the LaTeX, compiles it and answers.
render(outcome) ==
    /\ pc = "render"
    /\ calls' = Append(calls, Call("pdflatex", outcome, 0, <<>>))
    /\ LET exc == Rendering(request.route, request.as_pdf, outcome) IN
       IF exc.type # "none" THEN Respond(request.route, Failure(exc))
       ELSE IF request.as_pdf THEN Respond(request.route, Success(FileResponse, <<>>))
       ELSE Respond(request.route, Success(NoValue, RecoverLatex(llm_reply)))
    /\ UNCHANGED <<llm_reply, request, cv_text, jobs_data, rerun_vars, files_vars>>

(***************************************************************************)
(* The ranking of match_jobs.                                              *)
(***************************************************************************)
MaxMatches == 2     \* most entries in a ranking reply

\* re.search(r"\[.*\]", text, re.DOTALL): from the first opening bracket to
\* the last closing bracket, when the latter comes after the former.
SearchBrackets(s) ==
    LET a == Find(s, LBRACKET)
        b == RFind(s, RBRACKET)
    IN IF a # 0 /\ b > a
       THEN [found |-> TRUE, group |-> SubSeq(s, a, b)]
       ELSE [found |-> FALSE, group |-> <<>>]

\* get_top_matches: the prompt reads the title and employer of every
\* posting, the call raises on a status other than 2xx, on a network error
\* and on a body without content, the array is searched for and parsed.
get_top_matches(jobs, result) ==
    IF \E i \in 1..Len(jobs) : ~HasKey(jobs[i], "job_title")
    THEN [called |-> FALSE, exc |-> Raised("KeyError", "'job_title'"), matches |-> NoValue]
    ELSE IF \E i \in 1..Len(jobs) : ~HasKey(jobs[i], "employer_name")
    THEN [called |-> FALSE, exc |-> Raised("KeyError", "'employer_name'"), matches |-> NoValue]
    ELSE IF result.outcome = "status"
    THEN [called |-> TRUE, matches |-> NoValue,
          exc |-> [type |-> "HTTPStatusError", status_code |-> 0,
                   detail |-> Formatted("Client error for url", result.status, <<>>)]]
    ELSE IF result.outcome = "raised"
    THEN [called |-> TRUE, matches |-> NoValue,
          exc |-> RaisedWith("ReadTimeout", "", result.text)]
    ELSE IF result.outcome = "no_content"
    THEN [called |-> TRUE, matches |-> NoValue, exc |-> Raised("KeyError", "'choices'")]
    ELSE LET match == SearchBrackets(result.text) IN
         IF ~match.found
         THEN [called |-> TRUE, matches |-> NoValue,
               exc |-> RaisedWith("ValueError", "Could not parse LLM response: ",
                                  result.text)]
         ELSE LET parsed == loads(match.group) IN
              IF ~parsed.ok
              THEN [called |-> TRUE, matches |-> NoValue,
                    exc |-> Raised("JSONDecodeError", "Expecting value")]
              ELSE [called |-> TRUE, matches |-> parsed.val, exc |-> NoException]

\* job.get(key, "")
GetOr(obj, key, default) == IF HasKey(obj, key) THEN Get(obj, key) ELSE default

\* One entry of the results.
Result(job, match) ==
    ObjectValue(<<"job_title", "employer_name", "alignment", "job_url", "job_description">>,
                <<Get(job, "job_title"), Get(job, "employer_name"), Get(match, "alignment"),
                  GetOr(job, "job_apply_link", StrValue("")),
                  GetOr(job, "job_description", StrValue(""))>>)

\* Faulty variant: idx = match["job_index"], without the - 1.
RECURSIVE FormatResultsZeroBased(_, _, _, _)
FormatResultsZeroBased(top_matches, jobs, i, results) ==
    IF i > Len(top_matches.items) THEN [exc |-> NoException, results |-> results]
    ELSE LET match == top_matches.items[i] IN
         IF match.kind # "object"
         THEN [exc |-> Raised("TypeError", "not subscriptable"), results |-> <<>>]
         ELSE IF ~HasKey(match, "job_index")
         THEN [exc |-> Raised("KeyError", "'job_index'"), results |-> <<>>]
         ELSE LET v == Get(match, "job_index") IN
              IF v.kind \notin {"int", "bool", "float"}
              THEN [exc |-> Raised("TypeError", "unsupported operand type(s) for -"),
                    results |-> <<>>]
              ELSE LET tenths == IF v.kind = "float" THEN v.num ELSE 10 * v.num IN
                   IF ~(0 <= tenths /\ tenths < 10 * Len(jobs))
                   THEN FormatResultsZeroBased(top_matches, jobs, i + 1, results)
                   ELSE IF v.kind = "float"
                   THEN [exc |-> Raised("TypeError", "list indices must be integers"),
                         results |-> <<>>]
                   ELSE IF ~HasKey(match, "alignment")
                   THEN [exc |-> Raised("KeyError", "'alignment'"), results |-> <<>>]
                   ELSE FormatResultsZeroBased(top_matches, jobs, i + 1,
                            Append(results, Result(jobs[v.num + 1], match)))

\* for match in top_matches: idx = match["job_index"] - 1
\*     if 0 <= idx < len(jobs_data): results.append({...})
\* Numbers are compared in tenths; a float cannot index the list.
RECURSIVE FormatResults(_, _, _, _)
FormatResults(top_matches, jobs, i, results) ==
    IF i > Len(top_matches.items) THEN [exc |-> NoException, results |-> results]
    ELSE LET match == top_matches.items[i] IN
         IF match.kind # "object"
         THEN [exc |-> Raised("TypeError", "not subscriptable"), results |-> <<>>]
         ELSE IF ~HasKey(match, "job_index")
         THEN [exc |-> Raised("KeyError", "'job_index'"), results |-> <<>>]
         ELSE LET v == Get(match, "job_index") IN
              IF v.kind \notin {"int", "bool", "float"}
              THEN [exc |-> Raised("TypeError", "unsupported operand type(s) for -"),
                    results |-> <<>>]
              ELSE LET tenths == (IF v.kind = "float" THEN v.num ELSE 10 * v.num) - 10 IN
                   IF ~(0 <= tenths /\ tenths < 10 * Len(jobs))
                   THEN FormatResults(top_matches, jobs, i + 1, results)
                   ELSE IF v.kind = "float"
                   THEN [exc |-> Raised("TypeError", "list indices must be integers"),
                         results |-> <<>>]
                   ELSE IF ~HasKey(match, "alignment")
                   THEN [exc |-> Raised("KeyError", "'alignment'"), results |-> <<>>]
                   ELSE FormatResults(top_matches, jobs, i + 1,
                            Append(results, Result(jobs[v.num], match)))

\* match_jobs ranks the postings and answers with the matches in range.
llm_match_jobs(result) ==
    /\ pc = "llm"
    /\ Handler(request.route) = "match_jobs"
    /\ LET r == get_top_matches(jobs_data, result)
           f == FormatResults(r.matches, jobs_data, 1, <<>>)
       IN /\ calls' = IF r.called
                      THEN Append(calls, Call("llm", result.outcome, result.status,
                                              result.text))
                      ELSE calls
          /\ llm_reply' = IF r.called /\ result.outcome = "ok" THEN result.text ELSE <<>>
          /\ IF r.exc.type # "none" THEN Respond(request.route, Failure(JobsBoundary(r.exc)))
             ELSE IF f.exc.type # "none"
             THEN Respond(request.route, Failure(JobsBoundary(f.exc)))
             ELSE Respond(request.route,
                      Success(ObjectValue(<<"top_matches">>, <<ListValue(f.results)>>), <<>>))
    /\ UNCHANGED <<request, cv_text, jobs_data, rerun_vars, files_vars>>

\* An entry of a ranking reply.
Entry(job_index, alignment) ==
    <<LBRACE, "\"job_index\"", COLON, SP, job_index, COMMA, SP,
      "\"alignment\"", COLON, SP, alignment, RBRACE>>

\* Entries in and out of range.
MatchEntries ==
    { Entry("0", "80"), Entry("1", "80"), Entry("2", "150"), Entry("3", "80"),
      Entry("99", "1") }

\* [entry, entry, ...]
RECURSIVE ArrayItems(_)
ArrayItems(entries) ==
    IF entries = <<>> THEN <<>>
    ELSE IF Len(entries) = 1 THEN entries[1]
    ELSE entries[1] \o <<COMMA, SP>> \o ArrayItems(Tail(entries))
ArrayText(entries) == <<LBRACKET>> \o ArrayItems(entries) \o <<RBRACKET>>

\* Replies in which the array is missing, broken or inside other text, and
\* arrays with an entry the loop cannot read.
OtherRankings ==
    { <<>>, <<PROSE>>, <<RBRACKET, LBRACKET>>, <<LBRACKET, PROSE, RBRACKET>>,
      <<LBRACKET>> \o Entry("1", "80") \o <<COMMA, RBRACKET>>,
      <<PROSE, LF>> \o ArrayText(<<Entry("2", "150"), Entry("99", "1")>>) \o <<LF, PROSE>>,
      ArrayText(<<Entry("1", "80")>>) \o <<SP>> \o ArrayText(<<Entry("2", "150")>>),
      ArrayText(<<Entry("1", "80"), Entry("\"80\"", "80")>>),
      ArrayText(<<Entry("99", "1"), <<LBRACE, "\"alignment\"", COLON, SP, "80", RBRACE>>>>),
      ArrayText(<<<<LBRACE, "\"job_index\"", COLON, SP, "1", RBRACE>>>>),
      ArrayText(<<<<LBRACE, "\"job_index\"", COLON, SP, "99", RBRACE>>>>),
      ArrayText(<<Entry(TRUE_LIT, "80")>>),
      ArrayText(<<Entry("80.5", "80")>>),
      ArrayText(<<Entry("1", "80"), <<"80">>>>),
      ArrayText(<<Entry("1", "80"), Entry("2", "150"), Entry("1", "80"), Entry("2", "150")>>) }

(***************************************************************************)
(* One request on any route, from its arrival to its answer.               *)
(***************************************************************************)
NextRequest ==
    \/ /\ pc = "idle"
       /\ endpoint = "none"
       /\ \E route \in Routes : \E req \in Requests(route) : validate(req)
    \/ /\ pc = "extract"
       /\ \E parse \in Parses(request) : extract(parse)
    \/ /\ pc = "template"
       /\ \E found \in BOOLEAN : read_template(found)
    \/ /\ pc = "fetch"
       /\ \/ \E resp \in SearchFailures : fetch_jobs(resp)
          \/ \E k \in 0..MaxJobs :
                \E data \in [1..k -> Postings] : fetch_jobs(Found(data))
    \/ /\ pc = "llm"
       /\ Handler(request.route) = "modify_cv"
       /\ \E result \in LLMFailures \cup {Replied(t) : t \in LatexReplies} :
             llm_modify_cv(result)
    \/ /\ pc = "llm"
       /\ request.route = "v1.modify_cv_json"
       /\ \E result \in LLMFailures \cup {Replied(t) : t \in JsonReplies} :
             llm_modify_cv_json(result)
    \/ /\ pc = "llm"
       /\ request.route = "v1.match_cv_description"
       /\ \E result \in LLMFailures \cup {Replied(t) : t \in ScoreReplies} :
             llm_match_cv_description(result)
    \/ /\ pc = "llm"
       /\ Handler(request.route) = "match_jobs"
       /\ \E result \in LLMFailures \cup {Replied(t) : t \in OtherRankings} :
             llm_match_jobs(result)
    \/ /\ pc = "llm"
       /\ Handler(request.route) = "match_jobs"
       /\ get_top_matches(jobs_data, Replied(<<>>)).called
       /\ \E k \in 0..MaxMatches :
             \E entries \in [1..k -> MatchEntries] :
                 llm_match_jobs(Replied(ArrayText(entries)))
    \/ /\ pc = "render"
       /\ \E outcome \in RenderOutcomes : render(outcome)

SpecRequest == Init /\ [][NextRequest]_vars

(***************************************************************************)
(* Properties of match_jobs.                                               *)
(***************************************************************************)
Answered == pc = "done"
ServedJobs == Answered /\ endpoint = "match_jobs"

\* The last external step taken.
LastCall == calls[Len(calls)]
Replies == calls # <<>> /\ LastCall.step = "llm" /\ LastCall.outcome = "ok"

\* The array recovered from the reply, M.
Ranking == loads(SearchBrackets(llm_reply).group)

\* An entry {job_index, alignment} with an integer index.
IsMatchEntry(m) ==
    /\ m.kind = "object"
    /\ HasKey(m, "job_index")
    /\ HasKey(m, "alignment")
    /\ Get(m, "job_index").kind = "int"

RankingRecovered ==
    /\ Replies
    /\ SearchBrackets(llm_reply).found
    /\ Ranking.ok
    /\ \A i \in 1..Len(Ranking.val.items) : IsMatchEntry(Ranking.val.items[i])

InRange(m) == Get(m, "job_index").num \in 1..Len(jobs_data)

\* The entry of top_matches is the match joined with its posting.
Joins(entry, m) ==
    LET job == jobs_data[Get(m, "job_index").num] IN
    /\ entry.keys = <<"job_title", "employer_name", "alignment", "job_url", "job_description">>
    /\ Get(entry, "job_title") = Get(job, "job_title")
    /\ Get(entry, "employer_name") = Get(job, "employer_name")
    /\ Get(entry, "alignment") = Get(m, "alignment")
    /\ Get(entry, "job_url") =
          (IF HasKey(job, "job_apply_link") THEN Get(job, "job_apply_link") ELSE StrValue(""))
    /\ Get(entry, "job_description") =
          (IF HasKey(job, "job_description") THEN Get(job, "job_description")
           ELSE StrValue(""))

TopMatches == Get(returned, "top_matches").items

\* C12: for postings P and a recovered array M of {job_index, alignment}
\* entries, the request succeeds and top_matches is the subsequence of M
\* with job_index in 1..Len(P), in M's order, each entry joined with
\* P[job_index]; the other entries are dropped without an error.
C12_MatchesInRange ==
    (ServedJobs /\ RankingRecovered) =>
        /\ status_code = 200
        /\ returned.keys = <<"top_matches">>
        /\ LET kept == SelectSeq(Ranking.val.items, InRange) IN
           /\ Len(TopMatches) = Len(kept)
           /\ \A i \in 1..Len(kept) : Joins(TopMatches[i], kept[i])

\* Four matches for two postings, in the order of the reply and not by
\* alignment, the second posting without link and description.
C12_Witness ==
    /\ ServedJobs
    /\ status_code = 200
    /\ RankingRecovered
    /\ jobs_data = <<FULL_POSTING, BARE_POSTING>>
    /\ Len(TopMatches) = 4
    /\ Get(TopMatches[2], "job_title") = StrValue("Analyst")
    /\ Get(TopMatches[2], "job_url") = StrValue("")
    /\ Get(TopMatches[2], "alignment") = IntValue(150)
    /\ Get(TopMatches[3], "alignment") = IntValue(80)

\* Two entries, the second out of range, inside other text: one match.
C12_Dropped ==
    /\ ServedJobs
    /\ status_code = 200
    /\ RankingRecovered
    /\ Head(llm_reply) = PROSE
    /\ Len(Ranking.val.items) = 2
    /\ Len(TopMatches) = 1

(***************************************************************************)
(* Error reporting.                                                        *)
(***************************************************************************)
\* The model answered the prompt of this request with a text.
ReplyReceived == \E i \in 1..Len(calls) : calls[i].step = "llm" /\ calls[i].outcome = "ok"

\* t occurs in s as a contiguous run.
Occurs(t, s) == \E i \in 1..(Len(s) - Len(t) + 1) : SubSeq(s, i, i + Len(t) - 1) = t

\* Structured content could not be located or parsed in the reply.
RecoveryFailed ==
    /\ Answered
    /\ ReplyReceived
    /\ \/ /\ ServedJson
          /\ ~loads(llm_reply).ok
          /\ ~loads(clean_json_string(llm_reply)).ok
       \/ ServedMatch /\ ~MatchParses
       \/ ServedJobs /\ (~SearchBrackets(llm_reply).found \/ ~Ranking.ok)

\* The response body holds the raw or the cleaned model text.
CarriesReply ==
    \/ detail.has_raw /\ detail.raw_response \in {llm_reply, clean_json_string(llm_reply)}
    \/ Occurs(llm_reply, detail.text)

\* C13: every recovery failure is answered with a 5xx whose body contains
\* the raw or cleaned model text, also when a bracketed span is found in
\* the reply of the ranking but is not valid JSON.
C13_KeepsPayload ==
    RecoveryFailed => (status_code >= 500 /\ CarriesReply)

\* The part of C13 the two object endpoints and the reply without any
\* bracketed span satisfy.
C13_KeepsPayloadUnlessBracketed ==
    (RecoveryFailed /\ ~(ServedJobs /\ SearchBrackets(llm_reply).found)) =>
        (status_code >= 500 /\ CarriesReply)

\* The job search was asked and answered with the given outcome.
Searched(outcome) ==
    \E i \in 1..Len(calls) : calls[i].step = "jsearch" /\ calls[i].outcome = outcome

Prompted == \E i \in 1..Len(calls) : calls[i].step = "llm"

\* C14: in match_jobs, when the job search returns an empty list of
\* postings, the request is answered with status 404 and the error
\* 'No jobs found from API.', and the LLM is not called.
C14_EmptyIs404 ==
    (ServedJobs /\ Searched("ok") /\ jobs_data = <<>>) =>
        /\ status_code = 404
        /\ detail = Message("No jobs found from API.")
        /\ ~Prompted

\* The part of C14 that holds: no prompt is sent for an empty list.
C14_EmptyNotPrompted ==
    (ServedJobs /\ Searched("ok") /\ jobs_data = <<>>) => ~Prompted

\* C15: when the job search answers with a status other than 200, the
\* response of test_jsearch and of match_jobs carries that status code and
\* the body text of the job search.
C15_UpstreamStatus ==
    (Answered /\ Searched("status")) =>
        /\ status_code = LastCall.status
        /\ Occurs(LastCall.text, detail.text)

\* The part of C15 that holds: the body text of the job search is in the
\* answer, and its status is quoted in the text.
C15_UpstreamText ==
    (Answered /\ Searched("status")) =>
        /\ Occurs(LastCall.text, detail.text)
        /\ detail.quoted_status = LastCall.status

(***************************************************************************)
(* Input validation errors.                                                *)
(***************************************************************************)
\* The upload has no name or a name that is neither PDF nor DOCX.
UnsupportedType(req) == lower(Ext(req.filename)) \notin {".pdf", ".docx"}

TooLarge(req) == req.file_size > max_size_bytes

\* The endpoint takes a job text and the one given is empty or blank.
BlankJobText(req) ==
    /\ Handler(req.route) \in {"modify_cv", "modify_cv_json", "match_cv_description"}
    /\ (req.job_text.len = 0 \/ req.job_text.blank)

InvalidInput(req) == UnsupportedType(req) \/ TooLarge(req) \/ BlankJobText(req)

HumanReadable == detail.error.msg # "" \/ detail.text # <<>>

\* C16: on every upload endpoint an unsupported or missing file type, a
\* file above the size limit and an empty or blank job text are answered
\* with a 4xx and a message, never a 5xx, and no extraction, LLM or job
\* search call is made.
C16_ValidationIs4xx ==
    (Answered /\ request.route \in UploadRoutes /\ InvalidInput(request)) =>
        /\ status_code \in 400..499
        /\ HumanReadable
        /\ calls = <<>>

\* What holds of C16: a file without a name is answered with a 4xx before
\* any call, on every upload endpoint.
C16_MissingNameIs4xx ==
    (Answered /\ request.route \in UploadRoutes /\ request.filename = ""
        /\ ~TooLarge(request) /\ ~BlankJobText(request)) =>
        /\ status_code \in 400..499
        /\ HumanReadable
        /\ calls = <<>>

(***************************************************************************)
(* Extraction failures.                                                    *)
(***************************************************************************)
\* The handler went on to extract the text of the upload.
Extracted == calls # <<>> /\ calls[1].step = "extract"

\* C17: a 0-byte upload is answered with a 4xx on every endpoint that
\* extracts the text of a CV, on both route trees, never with an unhandled
\* exception or a 5xx, and no LLM call is made for it.
C17_EmptyFileIs4xx ==
    (Answered /\ Extracted /\ request.file_size = 0) =>
        /\ status_code \in 400..499
        /\ ~Prompted

\* What holds of C17: every endpoint but match_jobs of the api_v1 tree.
C17_EmptyFileIs4xxParser ==
    (Answered /\ Extracted /\ request.file_size = 0
        /\ request.route # "api_v1.match_jobs") =>
        /\ status_code = 400
        /\ ~Prompted

\* No endpoint sends a prompt for a 0-byte upload.
C17_EmptyFileNotPrompted ==
    (Answered /\ request.file_size = 0) => ~Prompted

(***************************************************************************)
(* Rendering failures.                                                     *)
(***************************************************************************)
\* modify_cv ran the compiler and it did not produce a PDF.
RenderingFailed ==
    /\ Answered
    /\ endpoint = "modify_cv"
    /\ calls # <<>>
    /\ LastCall.step = "pdflatex"
    /\ LastCall.outcome # "pdf"

\* C18: modify_cv with as_pdf false: however the rendering fails (the
\* compiler exits non-zero, exits zero without a PDF, or cannot be started)
\* the request still answers the success body with modified_cv_latex.
C18_RenderingFailureSwallowed ==
    (RenderingFailed /\ ~request.as_pdf) =>
        /\ status_code = 200
        /\ modified_cv_latex = RecoverLatex(llm_reply)

\* What holds of C18: the failures of a compiler that was started.
C18_CompilerFailureSwallowed ==
    (RenderingFailed /\ ~request.as_pdf /\ LastCall.outcome # "not_started") =>
        /\ status_code = 200
        /\ modified_cv_latex = RecoverLatex(llm_reply)

(***************************************************************************)
(* Failures of the LLM call.                                               *)
(***************************************************************************)
\* The prompt was sent and the call failed.
LLMCallFailed ==
    /\ Answered
    /\ calls # <<>>
    /\ LastCall.step = "llm"
    /\ LastCall.outcome # "ok"

\* The error answered holds the status and body of the failed call, or the
\* text of the exception.
CarriesDiagnostics ==
    IF LastCall.outcome = "status"
    THEN detail.quoted_status = LastCall.status /\ Occurs(LastCall.text, detail.text)
    ELSE IF LastCall.outcome = "raised"
    THEN Occurs(LastCall.text, detail.text)
    ELSE detail.text # <<>>

\* C19: when the LLM call fails (status other than 2xx, network or timeout
\* error, or a body without choices[0].message.content) the error answered
\* to the caller carries the status code and body of the failure, or the
\* text of the exception.
C19_LLMFailureDiagnostics ==
    LLMCallFailed => (status_code >= 500 /\ CarriesDiagnostics)

\* What holds of C19: the failure is answered with 500, and the ranking of
\* match_jobs passes on the text of the exception, which quotes the status.
C19_LLMFailureIs500 ==
    LLMCallFailed =>
        /\ status_code = 500
        /\ ServedJobs =>
              /\ detail.text # <<>>
              /\ LastCall.outcome = "status" => detail.quoted_status = LastCall.status
              /\ LastCall.outcome = "raised" => Occurs(LastCall.text, detail.text)

(***************************************************************************)
(* Order of the external steps of a request.                               *)
(***************************************************************************)
\* The place of a step in the order of a handler.
Rank(step) ==
    CASE step = "extract" -> 1
      [] step = "template" -> 2
      [] step = "jsearch" -> 3
      [] step = "llm" -> 4
      [] step = "pdflatex" -> 5

\* Step a ended well before the i-th call was made.
Before(a, i) == \E j \in 1..(i - 1) : calls[j].step = a /\ calls[j].outcome = "ok"

\* C20: within one request the external steps follow a fixed order and
\* none is repeated: the text is extracted before any prompt is sent, in
\* match_jobs the postings are fetched before the ranking is asked for, and
\* no call is made after one that failed.
C20_OrderedOnce ==
    /\ \A i, j \in 1..Len(calls) : i < j => Rank(calls[i].step) < Rank(calls[j].step)
    /\ \A i \in 1..Len(calls) :
          /\ i < Len(calls) => calls[i].outcome = "ok"
          /\ calls[i].step = "llm" =>
                /\ Before("extract", i)
                /\ Handler(request.route) = "match_jobs" => Before("jsearch", i)

Steps == [i \in 1..Len(calls) |-> calls[i].step]

\* A ranking answered after extraction, job search and prompt, in this order.
C20_Witness ==
    /\ ServedJobs
    /\ status_code = 200
    /\ Steps = <<"extract", "jsearch", "llm">>

\* A failed job search ends the request: no prompt, no second search.
C20_FailedSearch ==
    /\ ServedJobs
    /\ Steps = <<"extract", "jsearch">>
    /\ LastCall.outcome = "status"

(***************************************************************************)
(* Properties of the cleaning step of Strategy A.                          *)
(***************************************************************************)
\* The reply trimmed, without its fences, trimmed again.
FenceStripped(s0) == Strip(Remove(Remove(Strip(s0), FENCE_JSON), FENCE))

FirstOpen(s) == CHOOSE i \in 1..Len(s) : s[i] = LBRACE /\ \A j \in 1..(i - 1) : s[j] # LBRACE
LastClose(s) ==
    CHOOSE i \in 1..Len(s) : s[i] = RBRACE /\ \A j \in (i + 1)..Len(s) : s[j] # RBRACE

HasBraces(s) == Contains(s, LBRACE) /\ Contains(s, RBRACE)

\* r is the part of s from position a to position b, both included.
IsSlice(r, s, a, b) ==
    /\ Len(r) = b - a + 1
    /\ \A i \in 1..Len(r) : r[i] = s[a + i - 1]

\* C24 (as stated): the cleaned string is the fence-stripped, trimmed reply
\* when it lacks an opening or a closing brace, and otherwise the slice from
\* the first opening brace to the last closing brace, both included, which
\* is not empty, starts with the opening and ends with the closing brace.
C24_SliceOrUnchanged ==
    ServedJson =>
        LET s == FenceStripped(llm_reply)
            r == clean_json_string(llm_reply)
        IN IF ~HasBraces(s) THEN r = s
           ELSE /\ r # <<>>
                /\ Head(r) = LBRACE
                /\ r[Len(r)] = RBRACE
                /\ IsSlice(r, s, FirstOpen(s), LastClose(s))

\* C24 (amended): as stated when the first opening brace comes before the
\* last closing brace; when the last closing brace comes first the cleaned
\* string is empty.
C24_SliceOrUnchangedOrEmpty ==
    ServedJson =>
        LET s == FenceStripped(llm_reply)
            r == clean_json_string(llm_reply)
        IN IF ~HasBraces(s) THEN r = s
           ELSE IF FirstOpen(s) < LastClose(s)
           THEN /\ r # <<>>
                /\ Head(r) = LBRACE
                /\ r[Len(r)] = RBRACE
                /\ IsSlice(r, s, FirstOpen(s), LastClose(s))
           ELSE r = <<>>

\* A reply whose only closing brace precedes its only opening brace: the
\* cleaned string is empty and is what the failure carries.
C24_Witness ==
    /\ ServedJson
    /\ HasBraces(FenceStripped(llm_reply))
    /\ LastClose(FenceStripped(llm_reply)) < FirstOpen(FenceStripped(llm_reply))
    /\ status_code = 500
    /\ detail.has_raw
    /\ detail.raw_response = <<>>

\* Prose around a fenced object: the cleaned string is the object alone.
C24_Sliced ==
    /\ ServedJson
    /\ llm_reply # <<>>
    /\ Head(llm_reply) = PROSE
    /\ Contains(llm_reply, BACKTICK)
    /\ status_code = 200
    /\ clean_json_string(llm_reply) # FenceStripped(llm_reply)
    /\ Head(clean_json_string(llm_reply)) = LBRACE

(***************************************************************************)
(* Recovering a recovered LaTeX body.                                      *)
(***************************************************************************)
HasMarker(text) == MarkerLines(splitlines(text)) # {}

\* C25 (as stated): for every reply, the recovery steps of modify_cv
\* applied to their own output return that output unchanged.
C25_Idempotent ==
    (Served /\ status_code = 200) =>
        RecoverLatex(modified_cv_latex) = modified_cv_latex

\* C25 (amended): the recovery steps applied to their own output return it
\* unchanged for every reply that holds a marker line.
C25_IdempotentWithMarkerLine ==
    (Served /\ status_code = 200 /\ HasMarker(llm_reply)) =>
        RecoverLatex(modified_cv_latex) = modified_cv_latex

\* A reply with text and a fence ahead of the marker line, and a CR LF
\* inside the body: the body recovered is kept by a second recovery.
C25_Witness ==
    /\ Served
    /\ status_code = 200
    /\ HasMarker(llm_reply)
    /\ Head(llm_reply) = BACKTICK
    /\ Contains(llm_reply, CR)
    /\ modified_cv_latex # llm_reply
    /\ Len(modified_cv_latex) >= 3
    /\ Head(modified_cv_latex) = DOCUMENTCLASS
    /\ RecoverLatex(modified_cv_latex) = modified_cv_latex

\* A fence glued to the marker: the first recovery keeps the line ahead of
\* it, the second drops it.
C25_SecondPassDrops ==
    /\ Served
    /\ status_code = 200
    /\ ~HasMarker(llm_reply)
    /\ HasMarker(modified_cv_latex)
    /\ RecoverLatex(modified_cv_latex) # modified_cv_latex

(***************************************************************************)
(* POST /cv/modify: concurrent requests and the files they write.          *)
(***************************************************************************)
\* tex_path, pdf_path: <dir of the tree>/<base_filename>_<timestamp>.tex/.pdf
PathOf(h) == <<h.tree, h.name, h.stamp>>

\* The handler stops with an error response.
Fails(h, code, msg) == [h EXCEPT !.pc = "done", !.status_code = code, !.msg = msg]

\* The replies of the model to the two requests: different documents.
ReplyTo(p) ==
    IF p = 1 THEN FENCE_LATEX \o <<LF, DOCUMENTCLASS, LF, LATEX, LF>> \o FENCE
    ELSE <<PROSE, LF, DOCUMENTCLASS, LF, PROSE>>

\* A worker thread takes a validated request with an extracted text.
accept(p, tree, name, as_pdf) ==
    /\ handlers[p].pc = "idle"
    /\ handlers' = [handlers EXCEPT ![p] =
                       [@ EXCEPT !.pc = "template", !.tree = tree, !.name = name,
                                 !.as_pdf = as_pdf]]
    /\ UNCHANGED <<files, single_vars>>

\* Faulty variant: a template that cannot be read is replaced by nothing and
\* the handler goes on to the prompt.
open_template_or_none(p, found) ==
    /\ handlers[p].pc = "template"
    /\ handlers' = [handlers EXCEPT ![p] =
                       [@ EXCEPT !.pc = "llm",
                                 !.template = IF found THEN "read" ELSE "failed"]]
    /\ UNCHANGED <<files, single_vars>>

\* with open(template_path) ...: except Exception: 500
open_template(p, found) ==
    /\ handlers[p].pc = "template"
    /\ handlers' = [handlers EXCEPT ![p] =
                       IF found THEN [@ EXCEPT !.pc = "llm", !.template = "read"]
                       ELSE Fails([@ EXCEPT !.template = "failed"], 500,
                                  "Failed to read LaTeX template")]
    /\ UNCHANGED <<files, single_vars>>

\* modified_cv = call_openrouter_llm(prompt), then the recovery of the body.
prompt(p, reply) ==
    /\ handlers[p].pc = "llm"
    /\ handlers' = [handlers EXCEPT ![p] =
                       IF call_openrouter_llm(reply) = <<>>
                       THEN Fails([@ EXCEPT !.prompted = TRUE], 500,
                                  "Failed to get response from LLM")
                       ELSE [@ EXCEPT !.prompted = TRUE, !.pc = "write_tex",
                                      !.modified_cv = RecoverLatex(call_openrouter_llm(reply))]]
    /\ UNCHANGED <<files, single_vars>>

\* timestamp = now(); with open(tex_path, "w") as f: f.write(modified_cv)
write_tex(p, timestamp) ==
    /\ handlers[p].pc = "write_tex"
    /\ LET h == [handlers[p] EXCEPT !.stamp = timestamp] IN
       /\ files' = [files EXCEPT !.tex[PathOf(h)] = TexFile(h.modified_cv)]
       /\ handlers' = [handlers EXCEPT ![p] =
                          [h EXCEPT !.pc = "tmpdir", !.wrote = @ \cup {"tex"}]]
    /\ UNCHANGED single_vars

\* with tempfile.TemporaryDirectory() as tmpdir: shutil.copyfile(tex_path, cv.tex)
copy_tex(p) ==
    /\ handlers[p].pc = "tmpdir"
    /\ files' = [files EXCEPT !.tmp[p] =
                    [NoTmp EXCEPT !.exists = TRUE, !.tex = files.tex[PathOf(handlers[p])]]]
    /\ handlers' = [handlers EXCEPT ![p] = [@ EXCEPT !.pc = "pdflatex"]]
    /\ UNCHANGED single_vars

\* Faulty variant: a directory made with mkdtemp and removed at the end of
\* the block, which an exception other than CalledProcessError skips.
run_pdflatex_mkdtemp(p, outcome) ==
    /\ handlers[p].pc = "pdflatex"
    /\ LET h == [handlers[p] EXCEPT !.outcome = outcome] IN
       IF outcome = "pdf"
       THEN /\ files' = [files EXCEPT !.tmp[p] =
                            [@ EXCEPT !.pdf = PdfFile(files.tmp[p].tex.text), !.log = TRUE]]
            /\ handlers' = [handlers EXCEPT ![p] = [h EXCEPT !.pc = "copy_pdf"]]
       ELSE /\ files' = IF outcome = "not_started" THEN files
                        ELSE [files EXCEPT !.tmp[p] = NoTmp]
            /\ handlers' = [handlers EXCEPT ![p] =
                  IF outcome = "not_started"
                  THEN Fails(h, 500, IF h.tree = "v1" THEN "Internal server error"
                                     ELSE "Internal Server Error")
                  ELSE IF outcome = "exit_nonzero" /\ h.as_pdf
                  THEN Fails(h, 500, "LaTeX to PDF conversion failed")
                  ELSE [h EXCEPT !.pc = "answer"]]
    /\ UNCHANGED single_vars

\* subprocess.run(["pdflatex", ...], check=True); the directory is removed
\* when the with block is left, also by an exception.
run_pdflatex(p, outcome) ==
    /\ handlers[p].pc = "pdflatex"
    /\ LET h == [handlers[p] EXCEPT !.outcome = outcome] IN
       IF outcome = "pdf"
       THEN /\ files' = [files EXCEPT !.tmp[p] =
                            [@ EXCEPT !.pdf = PdfFile(files.tmp[p].tex.text), !.log = TRUE]]
            /\ handlers' = [handlers EXCEPT ![p] = [h EXCEPT !.pc = "copy_pdf"]]
       ELSE /\ files' = [files EXCEPT !.tmp[p] = NoTmp]
            /\ handlers' = [handlers EXCEPT ![p] =
                  IF outcome = "not_started"
                  THEN Fails(h, 500, IF h.tree = "v1" THEN "Internal server error"
                                     ELSE "Internal Server Error")
                  ELSE IF outcome = "exit_nonzero" /\ h.as_pdf
                  THEN Fails(h, 500, "LaTeX to PDF conversion failed")
                  ELSE [h EXCEPT !.pc = "answer"]]
    /\ UNCHANGED single_vars

\* if os.path.exists(tmp_pdf_path): copy cv.pdf to pdf_path; the block ends.
copy_pdf(p) ==
    /\ handlers[p].pc = "copy_pdf"
    /\ files' = [files EXCEPT !.pdf[PathOf(handlers[p])] = files.tmp[p].pdf,
                              !.tmp[p] = NoTmp]
    /\ handlers' = [handlers EXCEPT ![p] =
                       [@ EXCEPT !.pc = "answer", !.wrote = @ \cup {"pdf"}]]
    /\ UNCHANGED single_vars

\* if as_pdf: FileResponse(pdf_path) if it exists, else 500; else the body
\* with modified_cv_latex.
answer(p) ==
    /\ handlers[p].pc = "answer"
    /\ handlers' = [handlers EXCEPT ![p] =
                       IF ~@.as_pdf THEN [@ EXCEPT !.pc = "done", !.status_code = 200]
                       ELSE IF files.pdf[PathOf(@)].exists
                       THEN [@ EXCEPT !.pc = "send", !.status_code = 200]
                       ELSE Fails(@, 500, "PDF was not generated")]
    /\ UNCHANGED <<files, single_vars>>

\* FileResponse reads the file at pdf_path when the response is sent.
send_file(p) ==
    /\ handlers[p].pc = "send"
    /\ handlers' = [handlers EXCEPT ![p] =
                       [@ EXCEPT !.pc = "done", !.sent = files.pdf[PathOf(handlers[p])]]]
    /\ UNCHANGED <<files, single_vars>>

NextFiles ==
    \/ \E p \in Procs, tree \in Trees, name \in Names, as_pdf \in BOOLEAN :
          accept(p, tree, name, as_pdf)
    \/ \E p \in Procs, found \in BOOLEAN : open_template(p, found)
    \/ \E p \in Procs : \E reply \in {Replied(ReplyTo(p))} \cup LLMFailures : prompt(p, reply)
    \/ \E p \in Procs, timestamp \in Stamps : write_tex(p, timestamp)
    \/ \E p \in Procs : copy_tex(p)
    \/ \E p \in Procs, outcome \in RenderOutcomes : run_pdflatex(p, outcome)
    \/ \E p \in Procs : copy_pdf(p)
    \/ \E p \in Procs : answer(p)
    \/ \E p \in Procs : send_file(p)

SpecFiles == Init /\ [][NextFiles]_vars

(***************************************************************************)
(* Properties of the files of /cv/modify.                                  *)
(***************************************************************************)
\* C21: when the LaTeX template cannot be read, the request fails with 500
\* and 'Failed to read LaTeX template' before the prompt is built: no LLM
\* call is made and no .tex or .pdf file is written in that request.
C21_TemplateFailureFirst ==
    \A p \in Procs :
        handlers[p].template = "failed" =>
            /\ handlers[p].pc = "done"
            /\ handlers[p].status_code = 500
            /\ handlers[p].msg = "Failed to read LaTeX template"
            /\ ~handlers[p].prompted
            /\ handlers[p].wrote = {}

\* One request fails on the template on each route tree while the other
\* request has written its two files.
C21_Witness ==
    \E p, q \in Procs :
        /\ handlers[p].template = "failed"
        /\ handlers[p].pc = "done"
        /\ handlers[p].tree = "api_v1"
        /\ handlers[q].wrote = {"tex", "pdf"}
        /\ \A path \in Paths : files.tex[path].exists => path = PathOf(handlers[q])

\* The handler is inside the with block of the temporary directory.
InBlock(p) == handlers[p].pc \in {"pdflatex", "copy_pdf"}

\* C22: the temporary directory of a request exists only inside the
\* rendering block: it is gone on every way out (PDF produced, compiler
\* exits non-zero with as_pdf true or false, no PDF produced, exception),
\* and only the PDF is copied out of it.
C22_TmpdirRemoved ==
    /\ \A p \in Procs : files.tmp[p].exists => InBlock(p)
    /\ \A path \in Paths :
          /\ files.pdf[path].exists => files.pdf[path].kind = "pdf"
          /\ files.tex[path].exists => files.tex[path].kind = "tex"

\* One request ended by an exception in the block, the other after a
\* compiler failure with as_pdf: both directories are gone.
C22_Witness ==
    \E p, q \in Procs :
        /\ handlers[p].pc = "done"
        /\ handlers[p].outcome = "not_started"
        /\ handlers[q].pc = "done"
        /\ handlers[q].outcome = "exit_nonzero"
        /\ handlers[q].as_pdf
        /\ \A r \in Procs : ~files.tmp[r].exists

\* A request that produced its PDF: the directory is gone, the PDF is out.
C22_PdfOut ==
    \E p \in Procs :
        /\ handlers[p].pc = "done"
        /\ handlers[p].outcome = "pdf"
        /\ ~files.tmp[p].exists
        /\ files.pdf[PathOf(handlers[p])].exists

\* Inside the block the directory exists and holds the copy of the source.
C22_Inside ==
    \E p \in Procs :
        /\ handlers[p].pc = "copy_pdf"
        /\ files.tmp[p].exists
        /\ files.tmp[p].log
        /\ files.tmp[p].pdf.exists

\* The files of request p are the ones it wrote, and the PDF sent to an
\* as_pdf caller is the one compiled from its own LaTeX.
OwnFiles(p) ==
    LET h == handlers[p] IN
    /\ "tex" \in h.wrote => files.tex[PathOf(h)] = TexFile(h.modified_cv)
    /\ "pdf" \in h.wrote => files.pdf[PathOf(h)] = PdfFile(h.modified_cv)
    /\ (h.pc = "done" /\ h.status_code = 200 /\ h.as_pdf) => h.sent = PdfFile(h.modified_cv)

\* Both requests have named their files, and named them alike.
SamePath ==
    /\ \A p \in Procs : "tex" \in handlers[p].wrote
    /\ PathOf(handlers[1]) = PathOf(handlers[2])

C23_DistinctNamesIsolated ==
    ~SamePath => \A p \in Procs : OwnFiles(p)

\* The as_pdf caller is sent the PDF of the other request.
C23_ForeignPdf ==
    \E p, q \in Procs :
        /\ p # q
        /\ handlers[p].pc = "done"
        /\ handlers[p].status_code = 200
        /\ handlers[p].as_pdf
        /\ handlers[p].sent = PdfFile(handlers[q].modified_cv)
        /\ handlers[q].modified_cv # handlers[p].modified_cv

====
